---- MODULE Spec2Model ----
(***************************************************************************)
(* Heralded entanglement generation between two quantum-memory nodes       *)
(* through a time-bin BSM relay (generation.py, time_bin_bsm.py,            *)
(* detector.py, memory.py, custom_node.py).                                 *)
(*                                                                          *)
(* The simulation is single threaded and event driven: every handler runs   *)
(* to completion, so each action below is one event of the timeline         *)
(* together with every call the handler makes.  Handlers are written as     *)
(* operators from a world record (one field per variable) to a world        *)
(* record, so that a handler can call another one as the code does.         *)
(* Random draws are inputs chosen with \E.                                  *)
(***************************************************************************)
EXTENDS Integers, Sequences, FiniteSets, TLC

VARIABLES
    now,               \* timeline.now(), virtual time in ps
    events,            \* timeline.events: the pending (not removed) events
    schedule_counter,  \* timeline.schedule_counter
    cfg,               \* constructor arguments of the scenario, fixed by Init
    node,              \* per end node: attempts, atom_lost
    proto,             \* per end node: the EntanglementGenerationTimeBin instance
    memory,            \* per end node: the Memory instance
    rm,                \* per end node: the resource manager's counters
    bsm,               \* the TimeBinBSM device
    det,               \* the two detectors of the BSM
    error,             \* "none", or the exception that ended the run
    hist,              \* history of observable outputs (messages sent, verdicts)
    probe              \* inputs and result of the function or call under test

vars == <<now, events, schedule_counter, cfg, node, proto, memory, rm, bsm, det,
          error, hist, probe>>

(***************************************************************************)
(* Bounds of the model.                                                     *)
(***************************************************************************)
MaxTime == 300000      \* events later than this are not run
MaxProbeTime == 6      \* largest time fed to valid_trigger_time
MaxProbeRes == 4       \* largest resolution fed to valid_trigger_time
MaxRetrap == 2         \* largest retrap_num of a scenario
MaxCalls == 4          \* calls a component harness makes
MaxClock == 6          \* last instant of a component harness
MaxDark == 3           \* dark counts drawn inside the horizon
EffScale == 4          \* probabilities are counted in 1/EffScale

(***************************************************************************)
(* Program constants.                                                       *)
(***************************************************************************)
HeraldResolution == 20000   \* generation.py:405, resolution = 20000
ToleranceInv == 10000       \* time_bin_bsm.py:347, tolerance 0.0001 = 1/10000
NoTime == -1                \* expected_time, next_detection_time, arrival time
NoSign == -1                \* psi_sign, last_res detector before any result

Nodes == {1, 2}
Other(n) == 3 - n
Detectors == {0, 1}
NoPrio == -1           \* Event(time, process): priority defaults to inf

Abs(x) == IF x < 0 THEN -x ELSE x
Max(a, b) == IF a >= b THEN a ELSE b

(***************************************************************************)
(* Node names are strings; a name is modelled as the tuple of its           *)
(* characters' codes and compared as Python compares str.                   *)
(***************************************************************************)
RECURSIVE StrGreater(_, _)
StrGreater(a, b) ==
    IF a = <<>> THEN FALSE
    ELSE IF b = <<>> THEN TRUE
    ELSE IF Head(a) # Head(b) THEN Head(a) > Head(b)
    ELSE StrGreater(Tail(a), Tail(b))

(***************************************************************************)
(* generation.py: valid_trigger_time                                        *)
(***************************************************************************)
valid_trigger_time_strict(trigger_time, target_time, resolution) ==
    LET lower == target_time - (resolution \div 2)
        upper == target_time + (resolution \div 2)
    IN  lower < trigger_time /\ trigger_time < upper

valid_trigger_time(trigger_time, target_time, resolution) ==
    LET lower == target_time - (resolution \div 2)
        upper == target_time + (resolution \div 2)
    IN  lower <= trigger_time /\ trigger_time <= upper

(***************************************************************************)
(* round(now / time_resolution): Python 3 rounds a tie to the even integer. *)
(***************************************************************************)
PyRound(n, d) ==
    LET q == n \div d
        r == n % d
    IN  IF 2 * r < d THEN q
        ELSE IF 2 * r > d THEN q + 1
        ELSE IF q % 2 = 0 THEN q ELSE q + 1

(***************************************************************************)
(* The world record: one field per variable.                                *)
(***************************************************************************)
World ==
    [now |-> now, events |-> events, schedule_counter |-> schedule_counter,
     cfg |-> cfg, node |-> node, proto |-> proto, memory |-> memory, rm |-> rm,
     bsm |-> bsm, det |-> det, error |-> error, hist |-> hist]

Commit(w) ==
    /\ now' = w.now
    /\ events' = w.events
    /\ schedule_counter' = w.schedule_counter
    /\ cfg' = w.cfg
    /\ node' = w.node
    /\ proto' = w.proto
    /\ memory' = w.memory
    /\ rm' = w.rm
    /\ bsm' = w.bsm
    /\ det' = w.det
    /\ error' = w.error
    /\ hist' = w.hist

(***************************************************************************)
(* Messages and photons travel as the payload of an event.  msg_type is     *)
(* NEGOTIATE, NEGOTIATE_ACK or MEAS_RES (EntanglementGenerationMessage),    *)
(* "PHOTON" for a photon on a quantum channel, "none" for no payload.       *)
(* NEGOTIATE also carries the memory frequency, which no receiver reads.    *)
(* tag is history only: the number of starts of the receiving protocol at   *)
(* the moment the message was sent.                                         *)
(***************************************************************************)
NoMsg ==
    [msg_type |-> "none", qc_delay |-> 0, emit_time |-> 0, detector |-> 0,
     time |-> 0, resolution |-> 0, loss |-> 0, tag |-> 0, min_time |-> 0]

Negotiate(qc) == [NoMsg EXCEPT !.msg_type = "NEGOTIATE", !.qc_delay = qc]
NegotiateAck(t) == [NoMsg EXCEPT !.msg_type = "NEGOTIATE_ACK", !.emit_time = t]
MeasRes(res, t, resolution) ==
    [NoMsg EXCEPT !.msg_type = "MEAS_RES", !.detector = res, !.time = t,
                  !.resolution = resolution]
Photon(loss) == [NoMsg EXCEPT !.msg_type = "PHOTON", !.loss = loss]

(***************************************************************************)
(* Timeline (scheduler interface): schedule, remove_event, and the order    *)
(* in which run() takes events: by time, then by priority (a message keeps  *)
(* the schedule_counter of its send, every other event has priority inf),   *)
(* then in scheduling order.  tgt is the end node (1, 2), 0 for the BSM     *)
(* node, or the detector index for a detector's events; src is the sending  *)
(* node of a delivery and the destination of a delayed send_message.        *)
(***************************************************************************)
Schedule(w, t, prio, act, tgt, src, msg) ==
    [w EXCEPT !.events = @ \cup {[id |-> w.schedule_counter, time |-> t,
                                  prio |-> prio, act |-> act, tgt |-> tgt,
                                  src |-> src, msg |-> msg]},
              !.schedule_counter = @ + 1]

RemoveEvents(w, ids) == [w EXCEPT !.events = {e \in @ : e.id \notin ids}]

Before(e, f) ==
    \/ e.time < f.time
    \/ /\ e.time = f.time
       /\ \/ e.prio # NoPrio /\ (f.prio = NoPrio \/ e.prio < f.prio)
          \/ e.prio = f.prio /\ e.id < f.id

IsNextEvent(e) ==
    /\ e \in events
    /\ \A f \in events : f = e \/ Before(e, f)

Raise(w, what) == [w EXCEPT !.error = IF @ = "none" THEN what ELSE @]

(***************************************************************************)
(* Classical channel: a fixed delay per direction.  cc_node is the delay    *)
(* between the two end nodes, cc_up[n] from node n to the BSM node and      *)
(* cc_down[n] from the BSM node to node n.                                  *)
(***************************************************************************)
CcDelay(w, from, to) ==
    IF from = 0 THEN w.cfg.cc_down[to]
    ELSE IF to = 0 THEN w.cfg.cc_up[from]
    ELSE w.cfg.cc_node

send_message_default_priority(w, from, to, msg) ==
    LET w1 == Schedule(w, w.now + CcDelay(w, from, to), NoPrio,
                       "receive_message", to, from,
                       [msg EXCEPT !.tag = IF to \in Nodes THEN w.hist.starts[to] ELSE 0])
    IN  IF msg.msg_type = "NEGOTIATE"
        THEN [w1 EXCEPT !.hist.negotiates[from] = @ + 1]
        ELSE IF msg.msg_type = "MEAS_RES"
        THEN [w1 EXCEPT !.hist.meas_res_sent = @ + 1]
        ELSE w1

\* custom_node.py Node.send_message: priority = timeline.schedule_counter
send_message(w, from, to, msg) ==
    LET w1 == Schedule(w, w.now + CcDelay(w, from, to), w.schedule_counter,
                       "receive_message", to, from,
                       [msg EXCEPT !.tag = IF to \in Nodes THEN w.hist.starts[to] ELSE 0])
    IN  IF msg.msg_type = "NEGOTIATE"
        THEN [w1 EXCEPT !.hist.negotiates[from] = @ + 1]
        ELSE IF msg.msg_type = "MEAS_RES"
        THEN [w1 EXCEPT !.hist.meas_res_sent = @ + 1]
        ELSE w1

\* Node.schedule_qubit: the quantum channel commits the first free slot that
\* is not before min_time
schedule_qubit(w, n, min_time) == Max(min_time, w.now)

\* Node.send_qubit: the photon reaches the BSM node after the channel delay
send_qubit(w, n, photon) ==
    Schedule(w, w.now + w.cfg.qc[n], NoPrio, "receive_qubit", 0, n, photon)

(***************************************************************************)
(* memory.py: Memory                                                        *)
(* qstate is the state behind the memory's quantum-state key: "zero",       *)
(* "plus", "early"/"late" after a basis measurement, "psi+"/"psi-" when the *)
(* BSM has installed a Bell state on the two keys.                          *)
(***************************************************************************)
NoEntangled == [node_id |-> 0, memo_id |-> 0]

Memory_reset_keeps_expiration(w, n) ==
    [w EXCEPT !.memory[n].fidelity = 0,
              !.memory[n].generation_time = NoTime,
              !.memory[n].last_update_time = NoTime,
              !.memory[n].qstate = "zero",
              !.memory[n].entangled_memory = NoEntangled]

Memory_reset(w, n) ==
    LET ev == w.memory[n].expiration_event
        w1 == IF ev # NoTime THEN RemoveEvents(w, {ev}) ELSE w
    IN  [w1 EXCEPT !.memory[n].fidelity = 0,
                   !.memory[n].generation_time = NoTime,
                   !.memory[n].last_update_time = NoTime,
                   !.memory[n].qstate = "zero",
                   !.memory[n].entangled_memory = NoEntangled,
                   !.memory[n].expiration_event = NoTime,
                   !.hist.touched[n] = TRUE]

\* Memory.expire: the memory is not in an application and has no observer
Memory_expire(w, n) == Memory_reset(w, n)

Memory_schedule_expiration(w, n) ==
    LET ev == w.memory[n].expiration_event
        w1 == IF ev # NoTime THEN RemoveEvents(w, {ev}) ELSE w
        w2 == Schedule(w1, w1.now + w1.cfg.cutoff_time, NoPrio, "expire", n, n, NoMsg)
    IN  [w2 EXCEPT !.memory[n].expiration_event = w1.schedule_counter]

Memory_update_state(w, n, state) ==
    LET w1 == [w EXCEPT !.memory[n].qstate = state,
                        !.memory[n].entangled_memory = NoEntangled,
                        !.hist.touched[n] = TRUE]
    IN  IF w1.cfg.cutoff_time > 0 THEN Memory_schedule_expiration(w1, n) ELSE w1

\* Memory.excite with the encoding of the scenario ("yb_time_bin"): the
\* refractory return, the photon with loss 1 - efficiency, the next excite
\* time, and the photon handed to the node (get -> send_qubit)
\* period = 1e12 / frequency of the memory of node n; cfg.divider[n] divides
\* the frequency the memories are built with
Period(w, n) == w.cfg.period * w.cfg.divider[n]

Memory_excite_always(w, n) ==
    LET w1 == [w EXCEPT !.memory[n].generation_time = w.now,
                        !.memory[n].last_update_time = w.now,
                        !.memory[n].next_excite_time =
                            IF Period(w, n) > 0 THEN w.now + Period(w, n) ELSE @,
                        !.hist.emitted[n] = @ + 1,
                        !.hist.photons[n] = @ + 1,
                        !.hist.touched[n] = TRUE]
    IN  send_qubit(w1, n, Photon(EffScale - w.memory[n].efficiency))

Memory_excite(w, n) ==
    IF w.now < w.memory[n].next_excite_time THEN w
    ELSE Memory_excite_always(w, n)

(***************************************************************************)
(* generation.py: EntanglementGenerationB (the relay protocol)              *)
(* others = the two end nodes, in the order given to BSMNode.               *)
(***************************************************************************)
bsm_update_first_node_only(w, res, time) ==
    send_message(w, 0, 1, MeasRes(res, time, w.bsm.resolution))

bsm_update(w, res, time) ==
    LET m == MeasRes(res, time, w.bsm.resolution)
    IN  send_message(send_message(w, 0, 1, m), 0, 2, m)

(***************************************************************************)
(* time_bin_bsm.py: TimeBinBSM.trigger                                      *)
(* abs((time - last_res[0]) / bin_separation - 1.0) < 0.0001 in integers:   *)
(* |dt - bin| * 10000 < bin, that is |dt - bin| <= (bin - 1) div 10000.     *)
(* pair is the measured pair the detection came from, 0 for a dark count    *)
(* (history only).                                                          *)
(***************************************************************************)
ValidSeparation(dt, bin) == Abs(dt - bin) <= (bin - 1) \div ToleranceInv

\* Psi+ (0) when the detector is the one of the previous trigger, else Psi- (1)
TriggerRes_always_plus(detector_num, last_detector) == 0

TriggerRes(detector_num, last_detector) ==
    IF detector_num = last_detector THEN 0 ELSE 1

NotifyRes(w, res, time, pair) ==
    bsm_update([w EXCEPT !.hist.bsm_res =
                    Append(@, [res |-> res, time |-> time, pair |-> pair,
                               kind |-> IF pair = 0 THEN "dark"
                                        ELSE w.hist.pairs[pair].kind,
                               prev_pair |-> w.hist.last_trigger_pair,
                               desired |-> w.bsm.desired_state])],
               res, time)

BSM_trigger_keeps_last_res(w, d, time, pair) ==
    LET w1 == [w EXCEPT !.bsm.trigger_count = @ + 1]
        valid == ValidSeparation(time - w.bsm.last_res[1], w.cfg.bin_separation)
    IN  IF valid
        THEN [NotifyRes([w1 EXCEPT !.bsm.appropriate_time_photon_count = @ + 1],
                        TriggerRes(d, w.bsm.last_res[2]), time, pair)
                 EXCEPT !.bsm.last_res = <<time, d>>,
                        !.hist.last_trigger_pair = pair]
        ELSE IF w.bsm.desired_state = TRUE
        THEN [w1 EXCEPT !.bsm.approved_state_invalid_time_photon_count = @ + 1]
        ELSE [w1 EXCEPT !.bsm.invalid_state_photon_count = @ + 1]

BSM_trigger(w, d, time, pair) ==
    LET w1 == [w EXCEPT !.bsm.trigger_count = @ + 1]
        valid == ValidSeparation(time - w.bsm.last_res[1], w.cfg.bin_separation)
        w2 == IF valid
              THEN NotifyRes([w1 EXCEPT !.bsm.appropriate_time_photon_count = @ + 1],
                             TriggerRes(d, w.bsm.last_res[2]), time, pair)
              ELSE IF w.bsm.desired_state = TRUE
              THEN [w1 EXCEPT !.bsm.approved_state_invalid_time_photon_count = @ + 1]
              ELSE [w1 EXCEPT !.bsm.invalid_state_photon_count = @ + 1]
    IN  [w2 EXCEPT !.bsm.last_res = <<time, d>>,
                   !.hist.last_trigger_pair = pair]

(***************************************************************************)
(* detector.py: Detector                                                    *)
(* dead_time is 1e12 / count_rate.                                          *)
(***************************************************************************)
Accepts_no_dead_time(w, d) == TRUE

Accepts(w, d) == w.now > w.det[d].next_detection_time

record_detection_unrounded(w, d, pair) ==
    IF Accepts(w, d)
    THEN LET w1 == [w EXCEPT !.det[d].recorded_detection_count = @ + 1]
             w2 == BSM_trigger(w1, d, w.now, pair)
         IN  [w2 EXCEPT !.det[d].next_detection_time = w.now + w.det[d].dead_time]
    ELSE [w EXCEPT !.det[d].undetectable_photon_count = @ + 1]

record_detection(w, d, pair) ==
    IF Accepts(w, d)
    THEN LET time == PyRound(w.now, w.det[d].time_resolution) * w.det[d].time_resolution
             w1 == [w EXCEPT !.det[d].recorded_detection_count = @ + 1,
                             !.hist.pairs = IF pair = 0 THEN @
                                            ELSE [@ EXCEPT ![pair].recorded = @ + 1]]
             w2 == BSM_trigger(w1, d, time, pair)
         IN  [w2 EXCEPT !.det[d].next_detection_time = w.now + w.det[d].dead_time]
    ELSE [w EXCEPT !.det[d].undetectable_photon_count = @ + 1]

\* the outcomes random() > loss can have
Survives(loss) ==
    {b \in BOOLEAN : (b /\ loss < EffScale) \/ (~b /\ loss > 0)}

\* the outcomes random() < efficiency can have
Detects(efficiency) ==
    {b \in BOOLEAN : (b /\ efficiency > 0) \/ (~b /\ efficiency < EffScale)}

\* Detector.get for a time-bin photon: random() < efficiency
Detector_get(w, d, eff_draw, pair) ==
    LET w1 == [w EXCEPT !.det[d].photon_counter = @ + 1]
    IN  IF eff_draw THEN record_detection(w1, d, pair) ELSE w1

\* Detector.add_dark_count: the next dark count after an exponential gap
add_dark_count_two_chains(w, d, gap) ==
    LET t == w.now + gap
        w1 == Schedule(w, t, NoPrio, "add_dark_count", d, d, NoMsg)
        w2 == Schedule(w1, t, NoPrio, "add_dark_count", d, d, NoMsg)
    IN  Schedule(w2, t, NoPrio, "record_detection", d, d, NoMsg)

add_dark_count(w, d, gap) ==
    LET t == w.now + gap
        w1 == Schedule(w, t, NoPrio, "add_dark_count", d, d, NoMsg)
    IN  Schedule(w1, t, NoPrio, "record_detection", d, d, NoMsg)

(***************************************************************************)
(* time_bin_bsm.py: BSM.get and TimeBinBSM.get                              *)
(* A draw record holds the random values of one call: meas0, meas1 the      *)
(* basis outcomes (0 early, 1 late), p0_odds, p1_odds the survival draws,   *)
(* detector_num1, detector_num2 the detector choices, eff0, eff1 the        *)
(* efficiency draws of the detectors reached at once.  A draw is recorded   *)
(* by the outcome of its comparison: random() > loss can be true unless     *)
(* loss is 1 and false unless loss is 0, random() < efficiency can be true  *)
(* unless efficiency is 0 and false unless it is 1.  Probabilities are      *)
(* counted in 1/EffScale.                                                   *)
(***************************************************************************)
Outcomes(q) ==
    IF q \in {"zero", "early"} THEN {0}
    ELSE IF q = "late" THEN {1}
    ELSE {0, 1}

BaseGet_keeps_buffer(w, loc, photon) ==
    IF \A i \in 1..Len(w.bsm.photons) : w.bsm.photons[i].location # loc
    THEN [w EXCEPT !.bsm.photons = Append(@, [location |-> loc, loss |-> photon.loss]),
                   !.bsm.photon_arrival_time = w.now]
    ELSE [w EXCEPT !.bsm.photon_arrival_time = w.now]

BaseGet(w, loc, photon) ==
    LET w1 == IF w.bsm.photon_arrival_time < w.now
              THEN [w EXCEPT !.bsm.photons = <<[location |-> loc, loss |-> photon.loss]>>,
                             !.bsm.photon_arrival_time = w.now]
              ELSE w
    IN  IF \A i \in 1..Len(w1.bsm.photons) : w1.bsm.photons[i].location # loc
        THEN [w1 EXCEPT !.bsm.photons = Append(@, [location |-> loc, loss |-> photon.loss])]
        ELSE w1

BellState_always_plus(detector_num1, detector_num2) == "psi+"

BellState(detector_num1, detector_num2) ==
    IF detector_num1 = detector_num2 THEN "psi+" ELSE "psi-"

ScheduleLate(w, d, pair) ==
    Schedule(w, w.now + w.cfg.bin_separation, NoPrio, "get", d, pair, NoMsg)

Measure(w, dr) ==
    LET p0 == w.bsm.photons[1]
        p1 == w.bsm.photons[2]
        k0 == p0.location
        k1 == p1.location
        s0 == dr.p0_odds
        s1 == dr.p1_odds
        pair == Len(w.hist.pairs) + 1
        kind == <<"ee", "el", "le", "ll">>[2 * dr.meas0 + dr.meas1 + 1]
        heralding == kind \in {"el", "le"}
        wm == [w EXCEPT !.memory[k0].qstate = IF dr.meas0 = 0 THEN "early" ELSE "late",
                        !.memory[k1].qstate = IF dr.meas1 = 0 THEN "early" ELSE "late",
                        !.bsm.counts[kind] = @ + 1,
                        !.bsm.desired_state = heralding /\ s0 /\ s1,
                        !.hist.pairs =
                            Append(@, [kind |-> kind, d1 |-> dr.detector_num1,
                                       d2 |-> IF heralding THEN dr.detector_num2
                                              ELSE dr.detector_num1,
                                       s0 |-> s0, s1 |-> s1, recorded |-> 0,
                                       time |-> w.now, starts |-> w.hist.starts])]
        wb == IF heralding /\ s0 /\ s1
              THEN [wm EXCEPT !.memory[k0].qstate = BellState(dr.detector_num1, dr.detector_num2),
                              !.memory[k1].qstate = BellState(dr.detector_num1, dr.detector_num2)]
              ELSE wm
    IN  CASE kind = "ee" ->
               LET wa == IF s0 THEN Detector_get(wb, dr.detector_num1, dr.eff0, pair) ELSE wb
               IN  IF s1 THEN Detector_get(wa, dr.detector_num1, dr.eff1, pair) ELSE wa
          [] kind = "el" ->
               LET wa == IF s0 THEN Detector_get(wb, dr.detector_num1, dr.eff0, pair) ELSE wb
               IN  IF s1 THEN ScheduleLate(wa, dr.detector_num2, pair) ELSE wa
          [] kind = "le" ->
               LET wa == IF s0 THEN ScheduleLate(wb, dr.detector_num1, pair) ELSE wb
               IN  IF s1 THEN Detector_get(wa, dr.detector_num2, dr.eff1, pair) ELSE wa
          [] OTHER ->
               LET wa == IF s0 THEN ScheduleLate(wb, dr.detector_num1, pair) ELSE wb
               IN  IF s1 THEN ScheduleLate(wa, dr.detector_num1, pair) ELSE wa

TimeBinBSM_get(w, loc, photon, dr) ==
    LET w1 == BaseGet(w, loc, photon)
    IN  IF Len(w1.bsm.photons) = 2 THEN Measure(w1, dr) ELSE w1

\* the draws a call of get can make, given the states behind the two keys;
\* a draw the call does not make is left at a fixed value
GetDraws(w, loc, photon) ==
    LET w1 == BaseGet(w, loc, photon)
        p(i) == w1.bsm.photons[i]
        q(i) == w1.memory[p(i).location].qstate
    IN  IF Len(w1.bsm.photons) = 2
        THEN {dr \in [meas0 : Outcomes(q(1)), meas1 : Outcomes(q(2)),
                      p0_odds : Survives(p(1).loss), p1_odds : Survives(p(2).loss),
                      detector_num1 : Detectors, detector_num2 : Detectors,
                      eff0 : BOOLEAN, eff1 : BOOLEAN] :
                /\ dr.meas0 = dr.meas1 => dr.detector_num2 = dr.detector_num1
                /\ IF dr.meas0 = 0 /\ dr.p0_odds
                   THEN dr.eff0 \in Detects(w1.det[dr.detector_num1].efficiency)
                   ELSE dr.eff0 = FALSE
                /\ IF dr.meas1 = 0 /\ dr.p1_odds
                   THEN dr.eff1 \in Detects(w1.det[dr.detector_num2].efficiency)
                   ELSE dr.eff1 = FALSE}
        ELSE {[meas0 |-> 0, meas1 |-> 0, p0_odds |-> FALSE, p1_odds |-> FALSE,
               detector_num1 |-> 0, detector_num2 |-> 0, eff0 |-> FALSE,
               eff1 |-> FALSE]}

(***************************************************************************)
(* time_bin_EG_ex.py / main_yb_yb_EG_sim.py: SimpleManager.update, the      *)
(* resource manager the protocol reports to.                                *)
(***************************************************************************)
update_resource_manager(w, n, state) ==
    IF state = "RAW"
    THEN Memory_reset([w EXCEPT !.rm[n].raw_counter = @ + 1], n)
    ELSE [w EXCEPT !.rm[n].ent_counter = @ + 1]

(***************************************************************************)
(* generation.py: EntanglementGenerationTimeBin                             *)
(***************************************************************************)
\* set_others: primary = self.owner.name > self.remote_node_name
Primary_first_node(own_name, remote_name) == own_name = <<1>>

Primary(own_name, remote_name) == StrGreater(own_name, remote_name)

\* Z on the own key: psi- becomes psi+ and back (a joint state of both keys)
ZCorrect(w, n) ==
    LET q == w.memory[n].qstate
        z == IF q = "psi-" THEN "psi+" ELSE IF q = "psi+" THEN "psi-" ELSE q
    IN  IF q \in {"psi+", "psi-"}
        THEN [w EXCEPT !.memory = [m \in Nodes |-> [@[m] EXCEPT !.qstate = z]]]
        ELSE w

\* memory.py measure(): both keys of the pair are measured; the result goes
\* to the resource managers' statistics (fid_measurement), which no
\* handler reads
Memory_measure(w, n) ==
    [w EXCEPT !.memory = [m \in Nodes |-> [@[m] EXCEPT !.qstate = "measured"]]]

\* _entanglement_succeed: the primary measures the pair, and every event of
\* the timeline that is not an update_memory is removed
\* history only: what a resolve saw
DoomedKinds == {"add_dark_count", "record_detection", "expire"}

Resolved(w, n, success) ==
    [time |-> w.now, success |-> success, expected |-> w.proto[n].expected_time,
     heralds |-> w.hist.heralds[n], psi_sign |-> w.proto[n].psi_sign,
     sign_src |-> w.hist.sign_src[n], pair |-> Len(w.hist.pairs),
     starts |-> w.hist.starts[n],
     pending |-> Cardinality({e \in w.events : e.id \in w.proto[n].scheduled_events}),
     doomed |-> IF success
                THEN {[id |-> e.id, act |-> e.act] :
                         e \in {f \in w.events : f.act \in DoomedKinds}}
                ELSE {}]

RemoveAllButResolves_none(w) == w

RemoveAllButResolves(w) == [w EXCEPT !.events = {e \in @ : e.act = "update_memory"}]

entanglement_succeed(w, n) ==
    LET w1 == [w EXCEPT !.memory[n].entangled_memory =
                            [node_id |-> Other(n), memo_id |-> Other(n)],
                        !.memory[n].fidelity = w.cfg.raw_fidelity,
                        !.hist.touched[n] = FALSE,
                        !.hist.resolved[n] = Resolved(w, n, TRUE)]
        w2 == update_resource_manager(w1, n, "ENTANGLED")
        w3 == IF w2.proto[n].primary THEN Memory_measure(w2, n) ELSE w2
    IN  RemoveAllButResolves(w3)

\* start: the NEGOTIATE is delayed by retrap_time when the counter is 1
RetrapDue_never(attempts) == FALSE

RetrapDue(attempts) == attempts = 1

\* _entanglement_fail: every event of scheduled_events is removed
CancelScheduled_none(w, n) == w

CancelScheduled(w, n) == RemoveEvents(w, w.proto[n].scheduled_events)

RECURSIVE start(_, _), update_memory(_, _), entanglement_fail(_, _)

\* start: the attempt counter, the first round, the primary's NEGOTIATE
\* (delayed by retrap_time when the counter is 1) and the counter's wrap
start(w, n) ==
    LET w1 == [w EXCEPT !.node[n].attempts = @ + 1]
    IN  IF ~w1.proto[n].installed THEN w1
        ELSE
        LET w2 == IF w1.node[n].attempts = 1
                  THEN [w1 EXCEPT !.memory[n].efficiency = w1.cfg.original_mem_eff,
                                  !.node[n].atom_lost = FALSE]
                  ELSE w1
            w3 == [w2 EXCEPT !.hist.starts[n] = @ + 1,
                             !.hist.negotiates[n] = 0,
                             !.hist.negotiated[n] = FALSE,
                             !.hist.emit_runs[n] = 0,
                             !.hist.photons[n] = 0,
                             !.hist.heralds[n] = {}]
            r == update_memory(w3, n)
            w4 == r.w
            w5 == IF r.ret /\ w4.proto[n].primary
                  THEN LET w6 == [w4 EXCEPT !.proto[n].qc_delay = w4.cfg.qc[n]]
                           message == Negotiate(w6.proto[n].qc_delay)
                       IN  IF RetrapDue(w6.node[n].attempts)
                           THEN LET w7 == Schedule(w6, w6.now + w6.cfg.retrap_time, NoPrio,
                                                   "send_message", n, Other(n), message)
                                IN  [w7 EXCEPT !.proto[n].scheduled_events =
                                                   @ \cup {w6.schedule_counter}]
                           ELSE send_message(w6, n, Other(n), message)
                  ELSE w4
        IN  IF w5.node[n].attempts = w5.cfg.retrap_num
            THEN [w5 EXCEPT !.node[n].attempts = 0]
            ELSE w5

\* update_memory: returns the world and the method's result
update_memory(w, n) ==
    IF ~w.proto[n].installed THEN [w |-> w, ret |-> FALSE]
    ELSE
    LET w1 == [w EXCEPT !.proto[n].ent_round = @ + 1]
        round == w1.proto[n].ent_round
    IN  IF round = 1 THEN [w |-> w1, ret |-> TRUE]
        ELSE IF round = 2 /\ w1.proto[n].psi_sign # NoSign
        THEN LET w2 == IF w1.proto[n].psi_sign = 1 /\ ~w1.proto[n].primary
                       THEN ZCorrect(w1, n) ELSE w1
             IN  [w |-> entanglement_succeed(w2, n), ret |-> FALSE]
        ELSE IF round # 2
        THEN [w |-> Raise(w1, "ValueError: Ent Round should be 2"), ret |-> FALSE]
        ELSE [w |-> entanglement_fail(w1, n), ret |-> FALSE]

\* _entanglement_fail: the attempt's events are removed, the resource
\* manager is told RAW, and with loop the protocol starts again at once
entanglement_fail_keep_round(w, n) ==
    LET w1 == CancelScheduled(w, n)
        w2 == update_resource_manager(
                  [w1 EXCEPT !.hist.resolved[n] = Resolved(w, n, FALSE)], n, "RAW")
    IN  IF w2.cfg.loop
        THEN start([Memory_reset(w2, n) EXCEPT !.proto[n].psi_sign = NoSign,
                                               !.hist.sign_src[n] = "none"], n)
        ELSE w2

entanglement_fail(w, n) ==
    LET w1 == CancelScheduled(w, n)
        w2 == update_resource_manager(
                  [w1 EXCEPT !.hist.resolved[n] = Resolved(w, n, FALSE)], n, "RAW")
    IN  IF w2.cfg.loop
        THEN LET w3 == Memory_reset(w2, n)
                 w4 == [w3 EXCEPT !.proto[n].ent_round = 0,
                                  !.proto[n].psi_sign = NoSign,
                                  !.hist.sign_src[n] = "none"]
             IN  start(w4, n)
        ELSE w2

\* emit_event: |+>, the atom-loss draw (random() > .9708), and excite
emit_event_twice(w, n, atom_draw) ==
    Memory_excite_always(Memory_excite_always(Memory_update_state(w, n, "plus"), n), n)

emit_event(w, n, atom_draw) ==
    IF w.proto[n].ent_round # 1
    THEN Raise(w, "ValueError: not single-heralded")
    ELSE
    LET w0 == [w EXCEPT !.hist.emit_runs[n] = @ + 1]
        w1 == Memory_update_state(w0, n, "plus")
        w2 == IF ~w1.node[n].atom_lost /\ atom_draw
              THEN [w1 EXCEPT !.memory[n].efficiency = 0, !.node[n].atom_lost = TRUE]
              ELSE w1
    IN  Memory_excite(w2, n)

\* the protocol's own events are appended to scheduled_events
ScheduleOwn(w, n, t, act) ==
    [Schedule(w, t, NoPrio, act, n, n, NoMsg)
        EXCEPT !.proto[n].scheduled_events = @ \cup {w.schedule_counter}]

received_NEGOTIATE_same_emit_time(w, n, src, msg) ==
    LET qc_delay == w.cfg.qc[n]
        min_time == Max(w.now, w.memory[n].next_excite_time)
                        + Max(qc_delay, msg.qc_delay) - qc_delay + CcDelay(w, n, src)
        emit_time == schedule_qubit(w, n, min_time + w.cfg.em_delay)
        expected_time == emit_time + qc_delay + w.cfg.bin_separation
        w1 == [w EXCEPT !.proto[n].qc_delay = qc_delay,
                        !.proto[n].expected_time = expected_time,
                        !.hist.negotiated[n] = TRUE]
        w2 == ScheduleOwn(w1, n, emit_time, "emit_event")
        w3 == send_message(w2, n, src, NegotiateAck(emit_time))
    IN  ScheduleOwn(w3, n, expected_time + CcDelay(w, n, 0), "update_memory")

received_NEGOTIATE(w, n, src, msg) ==
    LET other_qc_delay == msg.qc_delay
        qc_delay == w.cfg.qc[n]
        cc_delay == CcDelay(w, n, src)
        total_quantum_delay == Max(qc_delay, other_qc_delay)
        memory_excite_time == w.memory[n].next_excite_time
        min_time == Max(w.now, memory_excite_time) + total_quantum_delay - qc_delay + cc_delay
        emit_time == schedule_qubit(w, n, min_time + w.cfg.em_delay)
        expected_time == emit_time + qc_delay + w.cfg.bin_separation
        w1 == [w EXCEPT !.proto[n].qc_delay = qc_delay,
                        !.proto[n].expected_time = expected_time,
                        !.hist.negotiated[n] = TRUE]
        w2 == ScheduleOwn(w1, n, emit_time, "emit_event")
        other_emit_time == emit_time + qc_delay - other_qc_delay
        w3 == send_message(w2, n, src, NegotiateAck(other_emit_time))
        future_start_time == expected_time + CcDelay(w, n, 0)
    IN  ScheduleOwn(w3, n, future_start_time, "update_memory")

received_NEGOTIATE_ACK(w, n, src, msg) ==
    LET expected_time == msg.emit_time + w.proto[n].qc_delay + w.cfg.bin_separation
        msg_emit_time == IF msg.emit_time < w.now THEN w.now ELSE msg.emit_time
        emit_time == schedule_qubit(w, n, msg_emit_time)
        w1 == [w EXCEPT !.proto[n].expected_time = expected_time,
                        !.hist.negotiated[n] = TRUE]
        w2 == ScheduleOwn(w1, n, emit_time, "emit_event")
        future_start_time == expected_time + CcDelay(w, n, 0)
    IN  IF emit_time # msg_emit_time
        THEN Raise(w1, "AssertionError: Invalid eg emit times")
        ELSE ScheduleOwn(w2, n, future_start_time, "update_memory")

\* the resolution the end node validates a herald with
MeasResResolution(msg) == HeraldResolution

received_MEAS_RES_unvalidated(w, n, src, msg) ==
    [w EXCEPT !.proto[n].psi_sign = msg.detector]

received_MEAS_RES(w, n, src, msg) ==
    LET sign == msg.detector
        time == msg.time
        resolution == MeasResResolution(msg)
        w1 == [w EXCEPT !.hist.heralds[n] = @ \cup {time},
                        !.hist.validated_unset[n] =
                            @ \/ w.proto[n].expected_time = NoTime]
    IN  IF valid_trigger_time(time, w.proto[n].expected_time, resolution)
        THEN [w1 EXCEPT !.proto[n].psi_sign = sign,
                        !.hist.sign_src[n] =
                            IF msg.tag # w.hist.starts[n] THEN "stale"
                            ELSE IF ~w.hist.negotiated[n] THEN "unnegotiated"
                            ELSE "attempt"]
        ELSE w1

\* src is 0 for the middle node, Other(n) for the remote node; a message
\* from any other node is dropped
received_message(w, n, src, msg) ==
    IF src \notin {0, Other(n)} THEN w
    ELSE
    CASE msg.msg_type = "NEGOTIATE" -> received_NEGOTIATE(w, n, src, msg)
      [] msg.msg_type = "NEGOTIATE_ACK" -> received_NEGOTIATE_ACK(w, n, src, msg)
      [] msg.msg_type = "MEAS_RES" -> received_MEAS_RES(w, n, src, msg)
      [] OTHER -> Raise(w, "Exception: Invalid message")

(***************************************************************************)
(* Scenarios: the constructor arguments (main_yb_yb_EG_sim.py).  Times are  *)
(* in ps; delays and the encoding's times are scaled down together so that  *)
(* a few attempts fit in the horizon: bin_separation 60000, detector dead   *)
(* time 40000, quantum channel 3000, classical channels 4500, em_delay      *)
(* 1500, retrap_time 90000, memory period 120000.                           *)
(***************************************************************************)
Names == {<<1>>, <<2>>, <<1, 0>>}

NameChoices == {f \in [Nodes -> Names] : f[1] # f[2]}

\* the gaps of the dark-count process that the model draws inside the
\* horizon; Beyond is a gap that ends past it
DarkGaps == {43500, 60030}

Beyond == MaxTime + 1

Timing ==
    [raw_fidelity : {1},
     qc : {[n \in Nodes |-> 3000]},
     cc_up : {[n \in Nodes |-> 4500]},
     cc_down : {[n \in Nodes |-> 4500]},
     cc_node : {4500},
     bin_separation : {60000},
     em_delay : {1500},
     retrap_time : {90000},
     period : {120000},
     divider : {[n \in Nodes |-> 1]},
     cutoff_time : {0},
     time_resolution : {150},
     dead_time : {40000},
     dark_gaps : {DarkGaps}]

\* without loss in the detectors and without dark counts every choice of
\* names, memory efficiency 0 or 1, loop and retrap threshold; with lossy
\* memories and detectors, and with dark counts, the looping scenarios of
\* the main script
Choices ==
    [name : NameChoices, original_mem_eff : {0, EffScale}, det_eff : {EffScale},
     dark : {FALSE}, loop : BOOLEAN, retrap_num : 1..MaxRetrap]
    \cup
    [name : {[n \in Nodes |-> <<n>>]}, original_mem_eff : {EffScale \div 2},
     det_eff : {EffScale - 1}, dark : {FALSE}, loop : {TRUE},
     retrap_num : {MaxRetrap}]
    \cup
    [name : {[n \in Nodes |-> <<n>>]}, original_mem_eff : {0, EffScale},
     det_eff : {EffScale}, dark : {TRUE}, loop : {TRUE}, retrap_num : {MaxRetrap}]

Scenarios ==
    {[name |-> a.name, original_mem_eff |-> a.original_mem_eff,
      det_eff |-> a.det_eff, dark |-> a.dark, loop |-> a.loop,
      retrap_num |-> a.retrap_num, raw_fidelity |-> t.raw_fidelity,
      qc |-> t.qc, cc_up |-> t.cc_up, cc_down |-> t.cc_down,
      cc_node |-> t.cc_node, bin_separation |-> t.bin_separation,
      em_delay |-> t.em_delay, retrap_time |-> t.retrap_time,
      period |-> t.period, divider |-> t.divider, cutoff_time |-> t.cutoff_time,
      time_resolution |-> t.time_resolution, dead_time |-> t.dead_time,
      dark_gaps |-> t.dark_gaps] :
        a \in Choices, t \in Timing}

Kinds == {"ee", "el", "le", "ll"}

\* the state after construction, for constructor arguments c
Blank(c) ==
    [now |-> 0,
     events |-> {},
     schedule_counter |-> 0,
     cfg |-> c,
     node |-> [n \in Nodes |-> [attempts |-> 0, atom_lost |-> FALSE]],
     proto |-> [n \in Nodes |->
                  [installed |-> TRUE, primary |-> FALSE, ent_round |-> 0,
                   psi_sign |-> NoSign, expected_time |-> NoTime, qc_delay |-> 0,
                   scheduled_events |-> {}]],
     memory |-> [n \in Nodes |->
                  [efficiency |-> c.original_mem_eff, fidelity |-> 0,
                   generation_time |-> NoTime, last_update_time |-> NoTime,
                   next_excite_time |-> 0, qstate |-> "zero",
                   entangled_memory |-> NoEntangled, expiration_event |-> NoTime,
                   atom_state |-> "P0"]],
     rm |-> [n \in Nodes |-> [raw_counter |-> 0, ent_counter |-> 0]],
     bsm |-> [photons |-> <<>>, photon_arrival_time |-> NoTime,
              last_res |-> <<NoTime, NoSign>>, resolution |-> c.time_resolution,
              desired_state |-> FALSE, counts |-> [k \in Kinds |-> 0],
              trigger_count |-> 0, appropriate_time_photon_count |-> 0,
              approved_state_invalid_time_photon_count |-> 0,
              invalid_state_photon_count |-> 0],
     det |-> [d \in Detectors |->
                [efficiency |-> c.det_eff, time_resolution |-> c.time_resolution,
                 dead_time |-> c.dead_time, next_detection_time |-> NoTime,
                 photon_counter |-> 0, recorded_detection_count |-> 0,
                 undetectable_photon_count |-> 0]],
     error |-> "none",
     hist |-> [phase |-> "constructed",
               starts |-> [n \in Nodes |-> 0],
               negotiates |-> [n \in Nodes |-> 0],
               negotiated |-> [n \in Nodes |-> FALSE],
               heralds |-> [n \in Nodes |-> {}],
               resolved |-> [n \in Nodes |->
                              [time |-> NoTime, success |-> FALSE, expected |-> NoTime,
                               heralds |-> {}, psi_sign |-> NoSign, sign_src |-> "none",
                               pair |-> 0, starts |-> 0, pending |-> 0,
                               doomed |-> {}]],
               sign_src |-> [n \in Nodes |-> "none"],
               emitted |-> [n \in Nodes |-> 0],
               emit_runs |-> [n \in Nodes |-> 0],
               photons |-> [n \in Nodes |-> 0],
               touched |-> [n \in Nodes |-> FALSE],
               validated_unset |-> [n \in Nodes |-> FALSE],
               meas_res_sent |-> 0,
               bsm_res |-> <<>>,
               last_trigger_pair |-> 0,
               pairs |-> <<>>,
               darks |-> 0]]

InitWorld(w) ==
    /\ now = w.now
    /\ events = w.events
    /\ schedule_counter = w.schedule_counter
    /\ cfg = w.cfg
    /\ node = w.node
    /\ proto = w.proto
    /\ memory = w.memory
    /\ rm = w.rm
    /\ bsm = w.bsm
    /\ det = w.det
    /\ error = w.error
    /\ hist = w.hist

NoProbe == [t |-> 0, target |-> 0, res |-> 0, out |-> FALSE, done |-> FALSE]

Init ==
    /\ \E c \in Scenarios : InitWorld(Blank(c))
    /\ probe = NoProbe

(***************************************************************************)
(* The main script: tl.init(), pair_protocol, start on node 1, start on     *)
(* node 2, tl.run().                                                        *)
(***************************************************************************)
\* the gaps the dark-count process may draw next; hist.darks counts the
\* gaps drawn inside the horizon
NextGaps(w) == IF w.hist.darks < MaxDark THEN w.cfg.dark_gaps ELSE {Beyond}

\* Detector.init of both detectors
\* BSM.init and Detector.init without the dark counts
EntitiesInit(w) ==
    [w EXCEPT !.bsm.photons = <<>>,
              !.bsm.photon_arrival_time = NoTime,
              !.bsm.resolution = Max(w.det[0].time_resolution, w.det[1].time_resolution),
              !.det = [d \in Detectors |->
                          [@[d] EXCEPT !.next_detection_time = NoTime,
                                       !.photon_counter = 0]]]

TimelineInit ==
    /\ hist.phase = "constructed"
    /\ IF cfg.dark
       THEN \E g0 \in cfg.dark_gaps, g1 \in {Beyond} :
               Commit([add_dark_count(add_dark_count(EntitiesInit(World), 0, g0), 1, g1)
                          EXCEPT !.hist.phase = "initialized", !.hist.darks = 1])
       ELSE Commit([EntitiesInit(World) EXCEPT !.hist.phase = "initialized"])
    /\ UNCHANGED probe

\* pair_protocol: set_others on both protocols
set_others(w, n) ==
    [w EXCEPT !.proto[n].primary = Primary(w.cfg.name[n], w.cfg.name[Other(n)])]

SetOthers ==
    /\ hist.phase = "initialized"
    /\ Commit([set_others(set_others(World, 1), 2) EXCEPT !.hist.phase = "paired"])
    /\ UNCHANGED probe

Start(n) ==
    /\ hist.phase = IF n = 1 THEN "paired" ELSE "started"
    /\ Commit([start(World, n) EXCEPT !.hist.phase = IF n = 1 THEN "started" ELSE "running"])
    /\ UNCHANGED probe

(***************************************************************************)
(* Timeline.run: the next event is taken and its handler runs to the end.   *)
(***************************************************************************)
Runnable(e, act) ==
    /\ hist.phase = "running"
    /\ error = "none"
    /\ IsNextEvent(e)
    /\ e.time <= MaxTime
    /\ e.act = act

Take(e) == [World EXCEPT !.now = e.time, !.events = @ \ {e}]

\* the delayed Node.send_message of the first NEGOTIATE
RunSendMessage ==
    \E e \in events :
        /\ Runnable(e, "send_message")
        /\ Commit(send_message(Take(e), e.tgt, e.src, e.msg))
        /\ UNCHANGED probe

\* Node.receive_message: protocols[0].received_message(src, msg)
RunReceiveMessage ==
    \E e \in events :
        /\ Runnable(e, "receive_message")
        /\ Commit(received_message(Take(e), e.tgt, e.src, e.msg))
        /\ UNCHANGED probe

RunEmitEvent ==
    \E e \in events :
        /\ Runnable(e, "emit_event")
        /\ \E atom_draw \in BOOLEAN : Commit(emit_event(Take(e), e.tgt, atom_draw))
        /\ UNCHANGED probe

RunUpdateMemory ==
    \E e \in events :
        /\ Runnable(e, "update_memory")
        /\ Commit(update_memory(Take(e), e.tgt).w)
        /\ UNCHANGED probe

\* BSMNode.receive_qubit: the photon is handed to the BSM
RunReceiveQubit ==
    \E e \in events :
        /\ Runnable(e, "receive_qubit")
        /\ \E dr \in GetDraws(Take(e), e.src, e.msg) :
              Commit(TimeBinBSM_get(Take(e), e.src, e.msg, dr))
        /\ UNCHANGED probe

\* the late photon of a pair reaches its detector
RunGet ==
    \E e \in events :
        /\ Runnable(e, "get")
        /\ \E eff_draw \in Detects(det[e.tgt].efficiency) :
              Commit(Detector_get(Take(e), e.tgt, eff_draw, e.src))
        /\ UNCHANGED probe

RunAddDarkCount ==
    \E e \in events :
        /\ Runnable(e, "add_dark_count")
        /\ \E gap \in NextGaps(World) :
              Commit([add_dark_count(Take(e), e.tgt, gap)
                         EXCEPT !.hist.darks = IF gap = Beyond THEN @ ELSE @ + 1])
        /\ UNCHANGED probe

RunRecordDetection ==
    \E e \in events :
        /\ Runnable(e, "record_detection")
        /\ Commit(record_detection(Take(e), e.tgt, 0))
        /\ UNCHANGED probe

Next ==
    \/ TimelineInit
    \/ SetOthers
    \/ \E n \in Nodes : Start(n)
    \/ RunSendMessage
    \/ RunReceiveMessage
    \/ RunEmitEvent
    \/ RunUpdateMemory
    \/ RunReceiveQubit
    \/ RunGet
    \/ RunAddDarkCount
    \/ RunRecordDetection

Spec == Init /\ [][Next]_vars

(***************************************************************************)
(* Component harnesses: one function or one component is called directly,   *)
(* at instants the harness chooses, and probe records what each call did.   *)
(***************************************************************************)
Base == Blank(CHOOSE c \in Scenarios : ~c.dark)

UnchangedWorld ==
    UNCHANGED <<now, events, schedule_counter, cfg, node, proto, memory, rm, bsm,
                det, error, hist>>

Tick ==
    /\ now < MaxClock
    /\ Commit([World EXCEPT !.now = @ + 1])
    /\ UNCHANGED probe

\* valid_trigger_time on every input of a small range
ProbeTimes == (0 - 1)..MaxProbeTime

InitProbe ==
    /\ InitWorld(Base)
    /\ probe \in [t : ProbeTimes, target : ProbeTimes, res : 0..MaxProbeRes,
                  out : {FALSE}, done : {FALSE}]

Validate ==
    /\ ~probe.done
    /\ probe' = [probe EXCEPT !.out = valid_trigger_time(probe.t, probe.target, probe.res),
                              !.done = TRUE]
    /\ UnchangedWorld

NextProbe == Validate

SpecProbe == InitProbe /\ [][NextProbe]_vars

\* Detector.record_detection called on detector 0
InitDetector ==
    /\ \E dead_time \in {2, 3}, time_resolution \in {1, 2} :
          InitWorld([Base EXCEPT !.det[0].dead_time = dead_time,
                                 !.det[0].time_resolution = time_resolution])
    /\ probe = [calls |-> <<>>]

RecordCall ==
    /\ Len(probe.calls) < MaxCalls
    /\ LET w == record_detection(World, 0, 0)
       IN  /\ Commit(w)
           /\ probe' = [calls |-> Append(probe.calls,
                  [time |-> now,
                   recorded |-> w.det[0].recorded_detection_count
                                  - det[0].recorded_detection_count,
                   triggers |-> w.bsm.trigger_count - bsm.trigger_count,
                   undetectable |-> w.det[0].undetectable_photon_count
                                      - det[0].undetectable_photon_count])]

NextDetector == Tick \/ RecordCall

SpecDetector == InitDetector /\ [][NextDetector]_vars

\* Memory.excite called on the memory of node 1; period is 1e12 / frequency,
\* 0 for a memory without a frequency
InitMemory ==
    /\ \E period \in {0, 2, 3} : InitWorld([Base EXCEPT !.cfg.period = period])
    /\ probe = [calls |-> <<>>]

ExciteCall ==
    /\ Len(probe.calls) < MaxCalls
    /\ LET w == Memory_excite(World, 1)
       IN  /\ Commit(w)
           /\ probe' = [calls |-> Append(probe.calls,
                  [time |-> now,
                   refractory |-> now < memory[1].next_excite_time,
                   emitted |-> w.hist.emitted[1] - hist.emitted[1],
                   photons |-> Cardinality(w.events) - Cardinality(events),
                   changed |-> w.memory # memory])]

NextMemory == Tick \/ ExciteCall

SpecMemory == InitMemory /\ [][NextMemory]_vars

(***************************************************************************)
(* Properties of the two-node scenario.                                     *)
(***************************************************************************)
ZeroLoss ==
    /\ cfg.original_mem_eff = EffScale
    /\ cfg.det_eff = EffScale
    /\ ~cfg.dark

HasResolved(n) == hist.resolved[n].time # NoTime

\* the pair the BSM measured during the attempt that node n resolved last,
\* if it was a heralding pair of which both photons survived
HeraldedAttempt(n) ==
    LET r == hist.resolved[n]
    IN  /\ r.pair > 0
        /\ hist.pairs[r.pair].starts[n] = r.starts
        /\ hist.pairs[r.pair].kind \in {"el", "le"}
        /\ hist.pairs[r.pair].s0
        /\ hist.pairs[r.pair].s1

PairSign(i) == IF hist.pairs[i].d1 = hist.pairs[i].d2 THEN 0 ELSE 1

Peer(n) == [node_id |-> Other(n), memo_id |-> Other(n)]

\* C1 as stated: in the scenario with zero photon loss, zero dark counts and
\* efficiencies 1, every full attempt ends in success (no attempt of either
\* node fails), with psi_sign in {0,1} given by the detector choices and
\* entangled_memory holding the peer's node id and memory id.
C1_every_attempt_succeeds ==
    ZeroLoss =>
        \A n \in Nodes :
            HasResolved(n) =>
                /\ hist.resolved[n].success
                /\ hist.resolved[n].psi_sign = PairSign(hist.resolved[n].pair)
                /\ memory[n].entangled_memory = Peer(n)

\* C1 amended: in the scenario with zero photon loss, zero dark counts and
\* efficiencies 1, an attempt ends in success exactly when the BSM measured
\* the attempt's pair as (early,late) or (late,early) and no photon was lost
\* to an atom loss; the success is then the node's only one, psi_sign is 0
\* when the two detector choices are equal and 1 when they differ, and
\* entangled_memory holds the peer's node id and memory id.  Every other
\* attempt ends in failure.
C1_success_iff_heralded ==
    ZeroLoss =>
        \A n \in Nodes :
            HasResolved(n) =>
                /\ hist.resolved[n].success <=> HeraldedAttempt(n)
                /\ hist.resolved[n].success =>
                      /\ hist.resolved[n].psi_sign \in {0, 1}
                      /\ hist.resolved[n].psi_sign = PairSign(hist.resolved[n].pair)
                      /\ memory[n].entangled_memory = Peer(n)
                      /\ rm[n].ent_counter = 1

C1_witness ==
    /\ ZeroLoss
    /\ \A n \in Nodes :
          /\ HasResolved(n)
          /\ hist.resolved[n].success
          /\ hist.resolved[n].psi_sign = 1
          /\ memory[n].entangled_memory = Peer(n)

\* C2: with memory efficiency 0 and loop, no attempt of either node ends in
\* success, no error is raised, and the node's attempt counter counts the
\* attempts modulo the retrap threshold (one more per attempt, zero when it
\* reaches the threshold).
C2_never_succeeds ==
    (cfg.original_mem_eff = 0 /\ cfg.loop) =>
        /\ error = "none"
        /\ \A n \in Nodes :
              /\ rm[n].ent_counter = 0
              /\ ~hist.resolved[n].success
              /\ node[n].attempts = hist.starts[n] % cfg.retrap_num

\* C3: whenever update_memory declares success, the psi_sign it read was set
\* by a MEAS_RES sent during the same attempt and received after the
\* attempt's expected_time was negotiated.
C3_sign_of_same_attempt ==
    \A n \in Nodes :
        (HasResolved(n) /\ hist.resolved[n].success) =>
            hist.resolved[n].sign_src = "attempt"

\* the BSM_res notifications that the triggers of pair i produced
ResOfPair(i) == {k \in 1..Len(hist.bsm_res) : hist.bsm_res[k].pair = i}

\* C4: every pair measured as (early,late) or (late,early) with neither
\* photon lost and both detections recorded has exactly one BSM_res, with
\* res 0 when the two detector choices are equal and 1 when they differ.
C4_one_res_per_heralding_pair ==
    \A i \in 1..Len(hist.pairs) :
        (/\ hist.pairs[i].kind \in {"el", "le"}
         /\ hist.pairs[i].s0
         /\ hist.pairs[i].s1
         /\ hist.pairs[i].recorded = 2) =>
            /\ Cardinality(ResOfPair(i)) = 1
            /\ \A k \in ResOfPair(i) : hist.bsm_res[k].res = PairSign(i)

\* C5: no BSM_res is produced by a trigger of a pair measured as
\* (early,early) or (late,late).
C5_no_res_for_same_bin_pair ==
    \A k \in 1..Len(hist.bsm_res) : hist.bsm_res[k].kind \notin {"ee", "ll"}

\* C7: after set_others exactly one of the two protocols is primary, it is
\* the one whose node name is the greater, the non-primary never sends
\* NEGOTIATE and no protocol sends more than one NEGOTIATE in an attempt.
C7_one_primary_one_negotiate ==
    hist.phase \in {"paired", "started", "running"} =>
        /\ \E n \in Nodes : proto[n].primary /\ ~proto[Other(n)].primary
        /\ \A n \in Nodes :
              /\ proto[n].primary <=> StrGreater(cfg.name[n], cfg.name[Other(n)])
              /\ ~proto[n].primary => hist.negotiates[n] = 0
              /\ hist.negotiates[n] <= 1

C7_witness ==
    \E n \in Nodes :
        /\ proto[n].primary
        /\ hist.starts[n] = 2
        /\ hist.negotiates[n] = 1
        /\ hist.negotiates[Other(n)] = 0

\* C8: a resolve happens at expected_time plus the classical delay to the
\* relay, and it declares success exactly when a MEAS_RES was received
\* during the attempt whose trigger time is within the resolution window of
\* the attempt's expected_time.
C8_success_iff_valid_herald ==
    \A n \in Nodes :
        HasResolved(n) =>
            /\ hist.resolved[n].time = hist.resolved[n].expected + cfg.cc_up[n]
            /\ hist.resolved[n].success <=>
                  \E t \in hist.resolved[n].heralds :
                      valid_trigger_time(t, hist.resolved[n].expected, HeraldResolution)

\* C6: valid_trigger_time(t, expected, resolution) is true exactly when
\* expected - resolution/2 <= t <= expected + resolution/2 (compared without
\* rounding, so doubled), for every integer t and expected and every
\* resolution >= 0, odd ones included.
C6_window_inclusive ==
    probe.done =>
        (probe.out <=> /\ 2 * probe.target - probe.res <= 2 * probe.t
                       /\ 2 * probe.t <= 2 * probe.target + probe.res)

\* an odd resolution, at the last accepted time of the window
C6_witness ==
    /\ probe.done
    /\ probe.out
    /\ probe.res = 3
    /\ probe.t = probe.target + 1

\* C9: of two successive record_detection calls less than the dead time
\* apart, the first one accepted, the first is recorded and triggers the BSM
\* once, and the second only increments the undetectable counter.
C9_one_detection_in_dead_time ==
    \A i \in 1..(Len(probe.calls) - 1) :
        (/\ probe.calls[i].recorded = 1
         /\ probe.calls[i + 1].time - probe.calls[i].time < det[0].dead_time) =>
            /\ probe.calls[i].triggers = 1
            /\ probe.calls[i].undetectable = 0
            /\ probe.calls[i + 1].recorded = 0
            /\ probe.calls[i + 1].triggers = 0
            /\ probe.calls[i + 1].undetectable = 1

C9_witness ==
    /\ Len(probe.calls) >= 2
    /\ probe.calls[1].recorded = 1
    /\ probe.calls[2].time > probe.calls[1].time
    /\ probe.calls[2].time - probe.calls[1].time < det[0].dead_time
    /\ probe.calls[2].undetectable = 1

\* C10: of two successive excite calls less than one period apart, the first
\* one emitting, only the first emits a photon; a call made while now <
\* next_excite_time emits nothing and leaves the memory as it was.
C10_one_photon_per_period ==
    /\ \A i \in 1..Len(probe.calls) :
          probe.calls[i].refractory =>
              /\ probe.calls[i].emitted = 0
              /\ probe.calls[i].photons = 0
              /\ ~probe.calls[i].changed
    /\ \A i \in 1..(Len(probe.calls) - 1) :
          (/\ cfg.period > 0
           /\ probe.calls[i].emitted = 1
           /\ probe.calls[i + 1].time - probe.calls[i].time < cfg.period) =>
              /\ probe.calls[i].photons = 1
              /\ probe.calls[i + 1].refractory
              /\ probe.calls[i].emitted + probe.calls[i + 1].emitted = 1

C10_witness ==
    /\ cfg.period > 0
    /\ Len(probe.calls) >= 2
    /\ probe.calls[1].emitted = 1
    /\ probe.calls[2].time > probe.calls[1].time
    /\ probe.calls[2].refractory
    /\ probe.calls[2].emitted = 0

(***************************************************************************)
(* Memory.reset and Memory.update_state called on the memory of node 1.     *)
(* The memory starts in any of the states the protocol leaves it in.        *)
(***************************************************************************)
MemorySnapshot(w) ==
    [fidelity |-> w.memory[1].fidelity,
     entangled_memory |-> w.memory[1].entangled_memory,
     generation_time |-> w.memory[1].generation_time,
     last_update_time |-> w.memory[1].last_update_time,
     qstate |-> w.memory[1].qstate,
     expiration_event |-> w.memory[1].expiration_event,
     pending |-> {e \in w.events : e.act = "expire" /\ e.tgt = 1}]

InitReset ==
    /\ \E cutoff_time \in {0, 2, 3}, fidelity \in {0, 1}, generation_time \in {NoTime, 0},
          entangled \in {NoEntangled, [node_id |-> 2, memo_id |-> 2]} :
          InitWorld([Base EXCEPT !.cfg.cutoff_time = cutoff_time,
                                 !.memory[1].fidelity = fidelity,
                                 !.memory[1].generation_time = generation_time,
                                 !.memory[1].last_update_time = generation_time,
                                 !.memory[1].entangled_memory = entangled])
    /\ probe = [resets |-> 0, updates |-> 0, before |-> MemorySnapshot(Base),
                after_one |-> MemorySnapshot(Base)]

UpdateStateCall ==
    /\ probe.updates < MaxCalls
    /\ \E state \in {"plus", "early"} : Commit(Memory_update_state(World, 1, state))
    /\ probe' = [probe EXCEPT !.resets = 0, !.updates = @ + 1]

ResetCall ==
    /\ probe.resets < MaxCalls
    /\ LET w == Memory_reset(World, 1)
       IN  /\ Commit(w)
           /\ probe' = [probe EXCEPT
                  !.resets = @ + 1,
                  !.before = IF probe.resets = 0 THEN MemorySnapshot(World) ELSE @,
                  !.after_one = IF probe.resets = 0 THEN MemorySnapshot(w) ELSE @]

NextReset == Tick \/ UpdateStateCall \/ ResetCall

SpecReset == InitReset /\ [][NextReset]_vars

\* C11: Memory.reset is idempotent.  After one reset the memory has fidelity
\* 0, empty entangled_memory, generation and update times -1, the qubit in
\* |0> and no pending expiration event; a second reset in a row (and one
\* more applied to any reachable state) leaves every one of these as the
\* first call did.
C11_reset_idempotent ==
    /\ MemorySnapshot(Memory_reset(Memory_reset(World, 1), 1))
          = MemorySnapshot(Memory_reset(World, 1))
    /\ probe.resets >= 1 =>
          /\ memory[1].fidelity = 0
          /\ memory[1].entangled_memory = NoEntangled
          /\ memory[1].generation_time = NoTime
          /\ memory[1].last_update_time = NoTime
          /\ memory[1].qstate = "zero"
          /\ memory[1].expiration_event = NoTime
          /\ MemorySnapshot(World).pending = {}
          /\ MemorySnapshot(World) = probe.after_one

C11_witness ==
    /\ probe.resets = 2
    /\ probe.before.pending # {}
    /\ probe.before.qstate = "plus"
    /\ MemorySnapshot(World) = probe.after_one

(***************************************************************************)
(* Properties of the relay protocol (EntanglementGenerationB).              *)
(***************************************************************************)
\* the messages the BSM node sends in a step
RelaySent == {e \in events' \ events : e.act = "receive_message" /\ e.src = 0}

\* C12: every bsm_update(result, time) of the relay protocol sends exactly
\* two MEAS_RES messages, one to each end node, each with the result, the
\* trigger time and the BSM device's resolution of the update; the relay
\* sends nothing without an update and never a NEGOTIATE or NEGOTIATE_ACK.
C12_two_meas_res_per_update ==
    [][/\ \A e \in RelaySent : e.msg.msg_type = "MEAS_RES"
       /\ IF Len(hist.bsm_res') # Len(hist.bsm_res)
          THEN LET r == hist.bsm_res'[Len(hist.bsm_res')]
               IN  /\ Len(hist.bsm_res') = Len(hist.bsm_res) + 1
                   /\ hist.meas_res_sent' = hist.meas_res_sent + 2
                   /\ Cardinality(RelaySent) = 2
                   /\ \A n \in Nodes : \E e \in RelaySent :
                          /\ e.tgt = n
                          /\ e.time = now' + cfg.cc_down[n]
                          /\ e.msg.detector = r.res
                          /\ e.msg.time = r.time
                          /\ e.msg.resolution = bsm.resolution
          ELSE /\ RelaySent = {}
               /\ hist.meas_res_sent' = hist.meas_res_sent]_vars

C12_witness ==
    /\ Len(hist.bsm_res) = 1
    /\ hist.meas_res_sent = 2
    /\ \A n \in Nodes : \E e \in events :
          /\ e.act = "receive_message" /\ e.src = 0 /\ e.tgt = n
          /\ e.msg.msg_type = "MEAS_RES"
          /\ e.msg.detector = hist.bsm_res[1].res
          /\ e.msg.time = hist.bsm_res[1].time
          /\ e.msg.resolution = bsm.resolution

(***************************************************************************)
(* custom_node.py BSMNode.receive_message and generation.py                 *)
(* EntanglementGenerationB.received_message.  A message names the protocol  *)
(* class it is meant for (protocol_type); the node hands it to each of its  *)
(* protocols of that class and raises when none has taken it.  Whether the  *)
(* relay protocol is in the node's protocols list is left open (registered).*)
(***************************************************************************)
EntanglementGenerationB_received_message_ignores(w, src, msg) == w

EntanglementGenerationB_received_message(w, src, msg) ==
    Raise(w, "Exception: EntanglementGenerationB should not receive message")

BSMNode_receive_message(w, src, msg, protocol_type, registered) ==
    LET w1 == IF registered /\ protocol_type = "EntanglementGenerationB"
              THEN EntanglementGenerationB_received_message(w, src, msg)
              ELSE w
    IN  Raise(w1, "Exception: Unknown protocol")

ProtocolTypes ==
    {"EntanglementGenerationB", "EntanglementGenerationTimeBin",
     "EntanglementGenerationTimeBinYb1389"}

RelayMessages ==
    {Negotiate(3000), NegotiateAck(2), MeasRes(0, 1, 150), MeasRes(1, 1, 150),
     [NoMsg EXCEPT !.msg_type = "OTHER"]}

NoDelivery == [delivered |-> FALSE, direct |-> FALSE, src |-> 0, msg |-> NoMsg,
               protocol_type |-> "", registered |-> FALSE]

InitRelay ==
    /\ InitWorld(Base)
    /\ probe = NoDelivery

\* a message from end node 1 or 2, or from a stranger (3), reaches the BSM node
DeliverToRelay ==
    /\ error = "none"
    /\ \E src \in {1, 2, 3}, msg \in RelayMessages, protocol_type \in ProtocolTypes,
          registered \in BOOLEAN :
          /\ Commit(BSMNode_receive_message(World, src, msg, protocol_type, registered))
          /\ probe' = [delivered |-> TRUE, direct |-> FALSE, src |-> src, msg |-> msg,
                       protocol_type |-> protocol_type, registered |-> registered]

\* received_message of the relay protocol called directly
DeliverToProtocol ==
    /\ error = "none"
    /\ \E src \in {1, 2, 3}, msg \in RelayMessages :
          /\ Commit(EntanglementGenerationB_received_message(World, src, msg))
          /\ probe' = [delivered |-> TRUE, direct |-> TRUE, src |-> src, msg |-> msg,
                       protocol_type |-> "EntanglementGenerationB", registered |-> TRUE]

NextRelay == Tick \/ DeliverToRelay \/ DeliverToProtocol

SpecRelay == InitRelay /\ [][NextRelay]_vars

\* C13: any message delivered to the relay protocol, of any type and from
\* any source, ends in a fatal error: the run has ended with the relay's
\* exception whenever the message reached the relay protocol, with an
\* exception in every case, and the relay has handled nothing (no event
\* scheduled, no message sent).
C13_relay_message_is_fatal ==
    probe.delivered =>
        /\ error # "none"
        /\ (probe.registered /\ probe.protocol_type = "EntanglementGenerationB") =>
              error = "Exception: EntanglementGenerationB should not receive message"
        /\ events = {}
        /\ schedule_counter = 0
        /\ hist.meas_res_sent = 0

C13_witness ==
    /\ probe.delivered
    /\ ~probe.direct
    /\ probe.registered
    /\ probe.src = 3
    /\ probe.msg.msg_type = "MEAS_RES"
    /\ probe.protocol_type = "EntanglementGenerationB"
    /\ error = "Exception: EntanglementGenerationB should not receive message"

(***************************************************************************)
(* The two-node scenario with one message or one emit_event call that the   *)
(* protocol's own schedule does not contain: a message of any type from     *)
(* the remote node, the middle node or a stranger (3) delivered to an end   *)
(* node, or emit_event called at an arbitrary instant, during the first     *)
(* attempt.                                                                 *)
(***************************************************************************)
FaultScenarios ==
    {c \in Scenarios : /\ ~c.dark /\ c.retrap_num = MaxRetrap
                       /\ c.original_mem_eff = EffScale /\ c.det_eff = EffScale
                       /\ c.name = [n \in Nodes |-> <<n>>]}

NoFault ==
    [kind |-> "none", n |-> 0, src |-> 0, msg_type |-> "none", primary |-> FALSE,
     round |-> 0, negotiated |-> FALSE, emit_runs |-> 0, starts |-> 0,
     scheduled |-> {}, emitted |-> 0, raised |-> FALSE]

InitFault ==
    /\ \E c \in FaultScenarios : InitWorld(Blank(c))
    /\ probe = NoFault

\* what an injected call on node n did, from the world before and after it
Fault(kind, n, src, msg_type, w) ==
    [kind |-> kind, n |-> n, src |-> src, msg_type |-> msg_type,
     primary |-> proto[n].primary, round |-> proto[n].ent_round,
     negotiated |-> hist.negotiated[n], emit_runs |-> hist.emit_runs[n],
     starts |-> hist.starts[n],
     scheduled |-> {e.act : e \in {f \in w.events \ events : f.tgt = n}},
     emitted |-> w.hist.emitted[n] - hist.emitted[n],
     raised |-> w.error # "none"]

InjectMessage ==
    /\ hist.phase = "running"
    /\ error = "none"
    /\ probe.kind = "none"
    /\ \A m \in Nodes : hist.starts[m] = 1
    /\ \E n \in Nodes, src \in {0, 1, 2, 3},
          msg \in {Negotiate(cfg.qc[1]), NegotiateAck(now + cfg.em_delay),
                   [NoMsg EXCEPT !.msg_type = "OTHER"]} :
          /\ src # n
          /\ LET w == received_message(World, n, src, msg)
             IN  /\ Commit(w)
                 /\ probe' = Fault("message", n, src, msg.msg_type, w)

InjectEmit ==
    /\ hist.phase = "running"
    /\ error = "none"
    /\ probe.kind = "none"
    /\ \A m \in Nodes : hist.starts[m] = 1
    /\ \E n \in Nodes, atom_draw \in BOOLEAN :
          LET w == emit_event(World, n, atom_draw)
          IN  /\ Commit(w)
              /\ probe' = Fault("emit", n, n, "none", w)

NextFault ==
    \/ TimelineInit
    \/ SetOthers
    \/ \E n \in Nodes : Start(n)
    \/ RunSendMessage
    \/ RunReceiveMessage
    \/ RunEmitEvent
    \/ RunUpdateMemory
    \/ RunReceiveQubit
    \/ RunGet
    \/ InjectMessage
    \/ InjectEmit

SpecFault == InitFault /\ [][NextFault]_vars

\* C14: emission is one-shot per attempt.  When emit_event has run a second
\* time within one attempt of a node (after the attempt's emission and
\* before its resolve), the run has ended with a fatal error.
C14_second_emit_is_fatal ==
    \A n \in Nodes : hist.emit_runs[n] >= 2 => error # "none"

\* C15: an end-node protocol that receives, from the remote or the middle
\* node, a message of a type outside NEGOTIATE/NEGOTIATE_ACK/MEAS_RES, a
\* NEGOTIATE at the primary, a NEGOTIATE_ACK at the non-primary, or a
\* NEGOTIATE/NEGOTIATE_ACK when it is not in round 1 awaiting it (a second
\* one in the attempt included) raises a fatal error and schedules neither
\* an emission nor a resolve.
C15_unexpected_message_is_fatal ==
    (/\ probe.kind = "message"
     /\ probe.src \in {0, Other(probe.n)}
     /\ \/ probe.msg_type = "OTHER"
        \/ probe.msg_type = "NEGOTIATE" /\ probe.primary
        \/ probe.msg_type = "NEGOTIATE_ACK" /\ ~probe.primary
        \/ /\ probe.msg_type \in {"NEGOTIATE", "NEGOTIATE_ACK"}
           /\ probe.round # 1 \/ probe.negotiated)
    => /\ probe.raised
       /\ probe.scheduled = {}

(***************************************************************************)
(* Properties of start and of the resolve of an attempt.                    *)
(***************************************************************************)
\* the delayed sends and the NEGOTIATE deliveries that node n adds in a step
NewDelayedSends(n) ==
    {e \in events' \ events : e.act = "send_message" /\ e.tgt = n}

NewNegotiates(n) ==
    {e \in events' \ events : /\ e.act = "receive_message" /\ e.src = n
                               /\ e.msg.msg_type = "NEGOTIATE"}

\* C16: with retrap threshold N, every start() of a node raises its attempt
\* counter by one and wraps it to zero at N, so that the counter is in
\* 0..N-1 after the start; the primary's NEGOTIATE is delayed by the retrap
\* time exactly on the starts at which the counter is 1 (once per N
\* attempts) and is sent at once on every other start.
C16_retrap_once_per_threshold ==
    [][\A n \in Nodes :
         hist.starts[n]' # hist.starts[n] =>
            LET counter == node[n].attempts + 1
                N == cfg.retrap_num
            IN  /\ hist.starts[n]' = hist.starts[n] + 1
                /\ counter = (hist.starts[n] % N) + 1
                /\ node[n].attempts' = IF counter = N THEN 0 ELSE counter
                /\ node[n].attempts' \in 0..(N - 1)
                /\ IF ~proto[n].primary'
                   THEN NewDelayedSends(n) = {} /\ NewNegotiates(n) = {}
                   ELSE IF counter = 1
                   THEN /\ NewNegotiates(n) = {}
                        /\ Cardinality(NewDelayedSends(n)) = 1
                        /\ \A e \in NewDelayedSends(n) :
                              /\ e.time = now' + cfg.retrap_time
                              /\ e.msg.msg_type = "NEGOTIATE"
                   ELSE /\ NewDelayedSends(n) = {}
                        /\ Cardinality(NewNegotiates(n)) = 1
                        /\ \A e \in NewNegotiates(n) :
                              e.time = now' + cfg.cc_node]_vars

\* the primary's third start with threshold 2: the counter is 1 again and
\* the NEGOTIATE waits for the retrap time
C16_witness ==
    \E n \in Nodes :
        /\ proto[n].primary
        /\ cfg.retrap_num = 2
        /\ hist.starts[n] = 3
        /\ node[n].attempts = 1
        /\ hist.negotiates[n] = 0
        /\ \E e \in events : /\ e.act = "send_message" /\ e.tgt = n
                              /\ e.time = now + cfg.retrap_time

\* node n resolved an attempt as failure in this step
FailedNow(n) ==
    /\ hist.resolved[n]' # hist.resolved[n]
    /\ ~hist.resolved[n]'.success

\* what every failure resolve does but the counter: the attempt's events
\* are cancelled, the memory is reset, the resource manager is told RAW,
\* and with loop the protocol has restarted in the same instant
FailEffects(n) ==
    /\ \A e \in events' : e.id \notin proto[n].scheduled_events
    /\ memory[n]'.fidelity = 0
    /\ memory[n]'.entangled_memory = NoEntangled
    /\ memory[n]'.qstate = "zero"
    /\ memory[n]'.generation_time = NoTime
    /\ memory[n]'.expiration_event = NoTime
    /\ rm[n]'.raw_counter = rm[n].raw_counter + 1
    /\ hist.resolved[n]'.time = now'
    /\ IF cfg.loop
       THEN /\ hist.starts[n]' = hist.starts[n] + 1
            /\ proto[n]'.psi_sign = NoSign
            /\ proto[n]'.ent_round = 1
       ELSE /\ hist.starts[n]' = hist.starts[n]
            /\ node[n]' = node[n]

\* C17 as stated: when an attempt is resolved as failure, every event the
\* protocol scheduled for it is cancelled, the memory is reset, and with
\* loop the protocol restarts in the same instant with psi_sign cleared,
\* the round at the start of negotiation and the node's attempt counter
\* one higher than before.
C17_fail_restarts_counter_plus_one ==
    [][\A n \in Nodes :
         FailedNow(n) =>
            /\ FailEffects(n)
            /\ cfg.loop => node[n]'.attempts = node[n].attempts + 1]_vars

\* C17 amended: as above, with the attempt counter one higher than before
\* or zero when that reaches the retrap threshold.
C17_fail_restarts_counter_wraps ==
    [][\A n \in Nodes :
         FailedNow(n) =>
            /\ FailEffects(n)
            /\ cfg.loop =>
                  node[n]'.attempts =
                     IF node[n].attempts + 1 = cfg.retrap_num THEN 0
                     ELSE node[n].attempts + 1]_vars

\* a failure that cancelled pending events of the attempt and restarted
C17_witness ==
    \E n \in Nodes :
        /\ cfg.loop
        /\ ~hist.resolved[n].success
        /\ hist.resolved[n].time = now
        /\ hist.resolved[n].pending > 0
        /\ hist.starts[n] = hist.resolved[n].starts + 1
        /\ proto[n].ent_round = 1
        /\ proto[n].psi_sign = NoSign
        /\ memory[n].qstate = "zero"
        /\ \A e \in events : e.tgt = n => e.act \notin {"emit_event", "update_memory"}

(***************************************************************************)
(* The two-node scenario with dark counts and a memory with a coherence     *)
(* time: cutoff_time is cutoff_ratio * coherence_time, short enough to      *)
(* expire during an attempt or long enough to be pending at its resolve.    *)
(***************************************************************************)
CutoffTimes == {30000, 100000}

CoherentScenarios ==
    {[c EXCEPT !.cutoff_time = t] :
        c \in {d \in Scenarios : d.dark /\ d.original_mem_eff = EffScale},
        t \in CutoffTimes}

InitCoherent ==
    /\ \E c \in CoherentScenarios : InitWorld(Blank(c))
    /\ probe = NoProbe

RunExpire ==
    \E e \in events :
        /\ Runnable(e, "expire")
        /\ Commit(Memory_expire(Take(e), e.tgt))
        /\ UNCHANGED probe

NextCoherent ==
    \/ TimelineInit
    \/ SetOthers
    \/ \E n \in Nodes : Start(n)
    \/ RunSendMessage
    \/ RunReceiveMessage
    \/ RunEmitEvent
    \/ RunUpdateMemory
    \/ RunReceiveQubit
    \/ RunGet
    \/ RunAddDarkCount
    \/ RunRecordDetection
    \/ RunExpire

SpecCoherent == InitCoherent /\ [][NextCoherent]_vars

\* C18: when an attempt is resolved as success, entangled_memory holds the
\* remote node and memory id, the resource manager has been told ENTANGLED,
\* and no dark-count event (add_dark_count, record_detection) and no memory
\* expiration that was pending at that moment is pending any more, so none
\* of them fires afterwards.
C18_success_cancels_dark_and_expire ==
    \A n \in Nodes :
        hist.resolved[n].success =>
            /\ memory[n].entangled_memory = Peer(n)
            /\ rm[n].ent_counter >= 1
            /\ \A e \in events :
                  [id |-> e.id, act |-> e.act] \notin hist.resolved[n].doomed

C18_witness ==
    \E n \in Nodes :
        /\ hist.resolved[n].success
        /\ hist.resolved[n].time = now
        /\ \E d \in hist.resolved[n].doomed : d.act = "add_dark_count"
        /\ \E d \in hist.resolved[n].doomed : d.act = "expire"
        /\ memory[n].entangled_memory = Peer(n)
        /\ rm[n].ent_counter = 1
        /\ \A e \in events : e.act \notin DoomedKinds

\* C20: whenever an end-node protocol validates a MEAS_RES, its
\* expected_time has been set by the NEGOTIATE or NEGOTIATE_ACK of an
\* attempt: no herald is validated against the initial value -1.
C20_expected_time_set_before_validation ==
    \A n \in Nodes : ~hist.validated_unset[n]

(***************************************************************************)
(* Invariants of the memory, the photons and the round.                     *)
(***************************************************************************)
\* C21: a memory's entangled_memory is non-empty only if the most recent
\* resolve of its protocol was a success whose psi_sign was set by a
\* MEAS_RES that passed valid_trigger_time, and the memory has not been
\* reset, set to a state or excited since that resolve.
C21_entangled_only_after_success ==
    \A n \in Nodes :
        memory[n].entangled_memory # NoEntangled =>
            /\ hist.resolved[n].success
            /\ hist.resolved[n].sign_src # "none"
            /\ hist.resolved[n].psi_sign \in {0, 1}
            /\ ~hist.touched[n]
            /\ memory[n].entangled_memory = Peer(n)

C21_witness ==
    /\ \E n \in Nodes :
          /\ memory[n].entangled_memory = Peer(n)
          /\ hist.resolved[n].success
          /\ hist.resolved[n].sign_src = "attempt"
    /\ \E n \in Nodes :
          /\ memory[n].entangled_memory = NoEntangled
          /\ hist.touched[n]
          /\ hist.emitted[n] > 0

\* the photons of memory n that are not measured yet: on the quantum channel,
\* or alone in the BSM waiting for the other node's photon
InFlight(n) == {e \in events : e.act = "receive_qubit" /\ e.src = n}

LivePhotons(n) ==
    Cardinality(InFlight(n))
      + (IF Len(bsm.photons) = 1 /\ bsm.photons[1].location = n THEN 1 ELSE 0)

\* C22: between two consecutive starts of its protocol a memory emits at
\* most one photon, and at most one photon of a memory is live at any
\* time: the photon of an attempt is measured or lost before the photon of
\* the next attempt is emitted.
C22_one_live_photon_per_attempt ==
    \A n \in Nodes :
        /\ hist.photons[n] <= 1
        /\ LivePhotons(n) <= 1
        /\ LivePhotons(n) = 1 => hist.photons[n] = 1

\* the photon of a node's second attempt is on the channel
C22_witness ==
    \E n \in Nodes :
        /\ hist.starts[n] = 2
        /\ hist.emitted[n] = 2
        /\ hist.photons[n] = 1
        /\ Cardinality(InFlight(n)) = 1

(***************************************************************************)
(* The two-node scenario with unequal channel delays: the quantum channel   *)
(* of a node and the classical channels of its link to the BSM node are     *)
(* short or long, independently for the two nodes.                          *)
(***************************************************************************)
QcDelays == {3000, 6000}

CcDelays == {4500, 7500}

DelayPairs ==
    {p \in [Nodes -> QcDelays] \X [Nodes -> CcDelays] :
        /\ \E n \in Nodes : p[1][n] = 3000
        /\ \E n \in Nodes : p[2][n] = 4500
        /\ \/ p[1][1] = p[1][2]
           \/ p[2][1] = p[2][2]
           \/ p[1][1] < p[1][2] /\ p[2][1] < p[2][2]}

DelayScenarios ==
    {[c EXCEPT !.qc = p[1], !.cc_up = p[2], !.cc_down = p[2]] :
        c \in {d \in Scenarios : /\ d.loop /\ d.retrap_num = MaxRetrap
                                  /\ d.original_mem_eff = EffScale
                                  /\ d.det_eff = EffScale
                                  /\ d.name = [n \in Nodes |-> <<n>>]},
        p \in DelayPairs}

InitDelays ==
    /\ \E c \in DelayScenarios : InitWorld(Blank(c))
    /\ probe = NoProbe

NextDelays ==
    \/ TimelineInit
    \/ SetOthers
    \/ \E n \in Nodes : Start(n)
    \/ RunSendMessage
    \/ RunReceiveMessage
    \/ RunEmitEvent
    \/ RunUpdateMemory
    \/ RunReceiveQubit
    \/ RunGet
    \/ RunAddDarkCount
    \/ RunRecordDetection

SpecDelays == InitDelays /\ [][NextDelays]_vars

\* C23: in every reachable state the round of every end-node protocol is
\* 0, 1 or 2, and no update_memory has run on a protocol whose round was
\* already 2 (no run has ended with the round error).
C23_round_in_0_2 ==
    /\ \A n \in Nodes : proto[n].ent_round \in {0, 1, 2}
    /\ error # "ValueError: Ent Round should be 2"

C23_witness ==
    \E n \in Nodes :
        /\ proto[n].ent_round = 2
        /\ proto[Other(n)].ent_round = 1
        /\ hist.resolved[n].success
        /\ hist.starts[Other(n)] > hist.starts[n]

(* C24: agreement. Whenever both end nodes have resolved the same attempt
   (their latest resolve events belong to the same start index), they reached
   the same verdict: both success with the same psi_sign, or both failure. *)
SameAttemptResolved ==
    /\ hist.resolved[1].starts > 0
    /\ hist.resolved[1].starts = hist.resolved[2].starts

C24_agreement ==
    SameAttemptResolved =>
        /\ hist.resolved[1].success = hist.resolved[2].success
        /\ hist.resolved[1].success =>
               hist.resolved[1].psi_sign = hist.resolved[2].psi_sign


(* C25: a MEAS_RES sent by a BSM trigger that ran at or before the attempt's
   expected_time (its delivery time minus the relay-to-node classical delay
   is the instant of the trigger) is handled by the node's received_message before the node's
   resolve of that attempt runs: while the node waits in round 1 with its
   expected_time negotiated, such a delivery leaves the timeline only by being
   the event that is executed, and none is still queued when the resolve
   runs.  Checked for the channel layout of the simulation script (every
   classical link has the same delay); C24 covers unequal delays. *)
DueHeralds(n) ==
    {e \in events : /\ e.act = "receive_message" /\ e.tgt = n
                    /\ e.msg.msg_type = "MEAS_RES"
                    /\ hist.negotiated[n] /\ proto[n].ent_round = 1
                    /\ e.time - cfg.cc_down[n] <= proto[n].expected_time}

Resolves(n) ==
    /\ proto[n].ent_round = 1
    /\ hist'.resolved[n] # hist.resolved[n]

C25_herald_before_resolve ==
    [][\A n \in Nodes :
           /\ \A e \in DueHeralds(n) : e \notin events' => IsNextEvent(e)
           /\ Resolves(n) => DueHeralds(n) = {}]_vars

C25_witness ==
    \E n \in Nodes :
        /\ hist.resolved[n].success
        /\ hist.resolved[n].sign_src = "attempt"
        /\ hist.resolved[n].heralds = {hist.resolved[n].expected}
        /\ hist.resolved[n].time = hist.resolved[n].expected + cfg.cc_down[n]


(* C26: once both nodes have negotiated the attempt (the non-primary handled
   NEGOTIATE, the primary handled NEGOTIATE_ACK) they hold the same
   expected_time; a node's scheduled emit_event lies at expected_time minus
   its own quantum-channel delay minus bin_separation; and every photon in
   flight reaches the BSM at expected_time - bin_separation of its sender, so
   the two photons of an attempt arrive at the same instant. *)
BothNegotiated == \A n \in Nodes : hist.negotiated[n] /\ proto[n].ent_round = 1

OwnEmits(n) ==
    {e \in events : e.act = "emit_event" /\ e.tgt = n
                    /\ e.id \in proto[n].scheduled_events}

C26_common_expected_time ==
    /\ BothNegotiated => proto[1].expected_time = proto[2].expected_time
    /\ \A n \in Nodes :
           hist.negotiated[n] /\ proto[n].ent_round = 1 =>
               \A e \in OwnEmits(n) :
                   proto[n].expected_time = e.time + cfg.qc[n] + cfg.bin_separation
    /\ \A n \in Nodes :
           \A e \in InFlight(n) :
               e.time = proto[n].expected_time - cfg.bin_separation
    /\ \A e \in InFlight(1) : \A f \in InFlight(2) : e.time = f.time

C26_witness ==
    /\ cfg.qc[1] # cfg.qc[2]
    /\ cfg.cc_up[1] # cfg.cc_up[2]
    /\ BothNegotiated
    /\ InFlight(1) # {} /\ InFlight(2) # {}
    /\ \A n \in Nodes : hist.starts[n] = 2


(***************************************************************************)
(* EntanglementGenerationTimeBinYb1389 with the Yb memory: the handshake    *)
(* schedules emit_event one emit delay before the agreed emission time, and *)
(* emit_event schedules the memory's excite after the time                  *)
(* initialize_cool_prep returns.  node[n].attempts is the owner's counter,  *)
(* which outlives a protocol instance; memory[n].atom_state is the Yb       *)
(* memory's atom_state.                                                     *)
(***************************************************************************)
\* initialize_time + cool_time + state_prep_time + excite_pulse_time
YbEmitDelay == 15000

Transitions == {"1389", "999", "lost"}

\* Yb.initialize_cool_prep: the state after the call and the returned time
Yb_initialize_cool_prep(w, n, depump_draw) ==
    LET retrap == w.node[n].attempts = 1 \/ w.node[n].attempts % w.cfg.retrap_num = 1
        w1 == IF retrap
              THEN [w EXCEPT !.memory[n].atom_state = "P0",
                             !.memory[n].efficiency = w.cfg.original_mem_eff]
              ELSE w
        w2 == IF w1.memory[n].atom_state # "LOST"
              THEN IF depump_draw
                   THEN [w1 EXCEPT !.memory[n].atom_state = "LOST",
                                   !.memory[n].efficiency = 0]
                   ELSE [w1 EXCEPT !.memory[n].atom_state = "P0"]
              ELSE w1
        w3 == IF w2.memory[n].efficiency # 0
              THEN Memory_update_state(w2, n, "plus") ELSE w2
    IN  [w |-> w3,
         ret |-> YbEmitDelay + (IF retrap THEN w.cfg.retrap_time ELSE 0)]

\* Yb.atom_transition for wavelength 1389
Yb_atom_transition(w, n, transition) ==
    CASE w.memory[n].atom_state = "LOST" -> w
      [] w.memory[n].atom_state = "P0" ->
            CASE transition = "1389" -> w
              [] transition = "999" -> [w EXCEPT !.memory[n].atom_state = "S0"]
              [] OTHER -> [w EXCEPT !.memory[n].atom_state = "LOST",
                                    !.memory[n].efficiency = 0]
      [] OTHER -> Raise(w, "ValueError: atom incorrectly in state")

Yb_excite(w, n, transition) ==
    IF w.now < w.memory[n].next_excite_time THEN w
    ELSE LET w1 == Yb_atom_transition(w, n, transition)
         IN  IF w1.error # "none" THEN w1 ELSE Memory_excite_always(w1, n)

Yb1389_entanglement_succeed(w, n) ==
    LET w1 == [w EXCEPT !.memory[n].entangled_memory =
                            [node_id |-> Other(n), memo_id |-> Other(n)],
                        !.memory[n].fidelity = w.cfg.raw_fidelity,
                        !.hist.touched[n] = FALSE,
                        !.hist.resolved[n] = Resolved(w, n, TRUE)]
        w2 == update_resource_manager(w1, n, "ENTANGLED")
    IN  [w2 EXCEPT !.events =
                      {e \in @ : e.act \notin {"add_dark_count", "record_detection"}}]

Yb1389_entanglement_fail(w, n) ==
    update_resource_manager(
        [CancelScheduled(w, n) EXCEPT !.hist.resolved[n] = Resolved(w, n, FALSE)],
        n, "RAW")

Yb1389_update_memory(w, n) ==
    IF ~w.proto[n].installed THEN [w |-> w, ret |-> FALSE]
    ELSE
    LET w1 == [w EXCEPT !.proto[n].ent_round = @ + 1]
        round == w1.proto[n].ent_round
    IN  IF round = 1 THEN [w |-> w1, ret |-> TRUE]
        ELSE IF round = 2 /\ w1.proto[n].psi_sign # NoSign
        THEN [w |-> Yb1389_entanglement_succeed(w1, n), ret |-> FALSE]
        ELSE IF round # 2
        THEN [w |-> Raise(w1, "ValueError: Ent Round should be 2"), ret |-> FALSE]
        ELSE [w |-> Yb1389_entanglement_fail(w1, n), ret |-> FALSE]

Yb1389_start(w, n) ==
    LET w1 == [w EXCEPT !.node[n].attempts = @ + 1]
    IN  IF ~w1.proto[n].installed THEN w1
        ELSE
        LET w2 == IF w1.node[n].attempts = 1
                  THEN [w1 EXCEPT !.memory[n].efficiency = w1.cfg.original_mem_eff]
                  ELSE w1
            w3 == [w2 EXCEPT !.hist.starts[n] = @ + 1]
            r == Yb1389_update_memory(w3, n)
            w4 == r.w
            w5 == IF r.ret /\ w4.proto[n].primary
                  THEN LET w6 == [w4 EXCEPT !.proto[n].qc_delay = w4.cfg.qc[n]]
                           message == Negotiate(w6.proto[n].qc_delay)
                       IN  IF w6.node[n].attempts = 1
                           THEN LET w7 == Schedule(w6, w6.now + w6.cfg.retrap_time, NoPrio,
                                                   "send_message", n, Other(n), message)
                                IN  [w7 EXCEPT !.proto[n].scheduled_events =
                                                   @ \cup {w6.schedule_counter}]
                           ELSE send_message(w6, n, Other(n), message)
                  ELSE w4
        IN  IF w5.node[n].attempts = w5.cfg.retrap_num
            THEN [w5 EXCEPT !.node[n].attempts = 0]
            ELSE w5

Yb1389_emit_event(w, n, depump_draw) ==
    IF w.proto[n].ent_round # 1
    THEN Raise(w, "ValueError: not single-heralded")
    ELSE LET r == Yb_initialize_cool_prep(
                      [w EXCEPT !.hist.emit_runs[n] = @ + 1], n, depump_draw)
         IN  ScheduleOwn(r.w, n, w.now + r.ret, "excite")

Yb1389_received_NEGOTIATE(w, n, src, msg) ==
    LET other_qc_delay == msg.qc_delay
        qc_delay == w.cfg.qc[n]
        cc_delay == CcDelay(w, n, src)
        total_quantum_delay == Max(qc_delay, other_qc_delay)
        memory_excite_time == w.memory[n].next_excite_time
        min_time == Max(w.now, memory_excite_time) + total_quantum_delay - qc_delay + cc_delay
        emit_delay == YbEmitDelay
        emit_time == schedule_qubit(w, n, min_time + emit_delay)
        emit_time_delta == emit_time - min_time - emit_delay
        expected_time == emit_time + qc_delay + w.cfg.bin_separation
        w1 == [w EXCEPT !.proto[n].qc_delay = qc_delay,
                        !.proto[n].expected_time = expected_time,
                        !.hist.negotiated[n] = TRUE]
        w2 == ScheduleOwn(w1, n, min_time + emit_time_delta, "emit_event")
        other_emit_time == emit_time + qc_delay - other_qc_delay
        w3 == send_message(w2, n, src,
                           [NegotiateAck(other_emit_time)
                               EXCEPT !.min_time = min_time + emit_time_delta])
        future_start_time == expected_time + CcDelay(w, n, 0)
    IN  ScheduleOwn(w3, n, future_start_time, "update_memory")

Yb1389_received_NEGOTIATE_ACK(w, n, src, msg) ==
    LET expected_time == msg.emit_time + w.proto[n].qc_delay + w.cfg.bin_separation
        msg_emit_time == IF msg.emit_time < w.now THEN w.now ELSE msg.emit_time
        emit_time == schedule_qubit(w, n, msg_emit_time)
        w1 == [w EXCEPT !.proto[n].expected_time = expected_time,
                        !.hist.negotiated[n] = TRUE]
        w2 == ScheduleOwn(w1, n, msg.min_time, "emit_event")
        future_start_time == expected_time + CcDelay(w, n, 0)
    IN  IF emit_time # msg_emit_time
        THEN Raise(w1, "AssertionError: Invalid eg emit times")
        ELSE ScheduleOwn(w2, n, future_start_time, "update_memory")

Yb1389_received_MEAS_RES(w, n, src, msg) ==
    LET w1 == [w EXCEPT !.hist.heralds[n] = @ \cup {msg.time}]
    IN  IF valid_trigger_time(msg.time, w.proto[n].expected_time, msg.resolution)
        THEN [w1 EXCEPT !.proto[n].psi_sign = msg.detector,
                        !.hist.sign_src[n] = "attempt"]
        ELSE w1

Yb1389_received_message(w, n, src, msg) ==
    IF src \notin {0, Other(n)} THEN w
    ELSE
    CASE msg.msg_type = "NEGOTIATE" -> Yb1389_received_NEGOTIATE(w, n, src, msg)
      [] msg.msg_type = "NEGOTIATE_ACK" -> Yb1389_received_NEGOTIATE_ACK(w, n, src, msg)
      [] msg.msg_type = "MEAS_RES" -> Yb1389_received_MEAS_RES(w, n, src, msg)
      [] OTHER -> Raise(w, "Exception: Invalid message")

StartYb1389(n) ==
    /\ hist.phase = IF n = 1 THEN "paired" ELSE "started"
    /\ Commit([Yb1389_start(World, n)
                  EXCEPT !.hist.phase = IF n = 1 THEN "started" ELSE "running"])
    /\ UNCHANGED probe

RunReceiveMessageYb1389 ==
    \E e \in events :
        /\ Runnable(e, "receive_message")
        /\ Commit(Yb1389_received_message(Take(e), e.tgt, e.src, e.msg))
        /\ UNCHANGED probe

RunEmitEventYb1389 ==
    \E e \in events :
        /\ Runnable(e, "emit_event")
        /\ \E depump_draw \in BOOLEAN :
              Commit(Yb1389_emit_event(Take(e), e.tgt, depump_draw))
        /\ UNCHANGED probe

RunExcite ==
    \E e \in events :
        /\ Runnable(e, "excite")
        /\ \E transition \in Transitions : Commit(Yb_excite(Take(e), e.tgt, transition))
        /\ UNCHANGED probe

RunUpdateMemoryYb1389 ==
    \E e \in events :
        /\ Runnable(e, "update_memory")
        /\ Commit(Yb1389_update_memory(Take(e), e.tgt).w)
        /\ UNCHANGED probe

\* the owner's attempt counter when the protocol instance is created
PriorAttempts == 0 .. (MaxRetrap - 1)

InitYb1389 ==
    /\ \E c \in {d \in DelayScenarios : ~d.dark} :
       \E k \in PriorAttempts :
           InitWorld([Blank(c) EXCEPT !.node =
                         [n \in Nodes |-> [@[n] EXCEPT !.attempts = k]]])
    /\ probe = NoProbe

NextYb1389 ==
    \/ TimelineInit
    \/ SetOthers
    \/ \E n \in Nodes : StartYb1389(n)
    \/ RunSendMessage
    \/ RunReceiveMessageYb1389
    \/ RunEmitEventYb1389
    \/ RunExcite
    \/ RunUpdateMemoryYb1389
    \/ RunReceiveQubit
    \/ RunGet

SpecYb1389 == InitYb1389 /\ [][NextYb1389]_vars

AgreedEmitTime(n) ==
    proto[n].expected_time - proto[n].qc_delay - cfg.bin_separation

ScheduledExcites(n) ==
    {e \in events : e.act = "excite" /\ e.tgt = n /\ e.id \in proto[n].scheduled_events}

(* C27: on both nodes and in every attempt the excite that emit_event
   schedules lies exactly at the emission time the node agreed in the
   handshake (expected_time = agreed emission time + own quantum-channel
   delay + bin_separation on either node), hence before the node's resolve
   event at expected_time + classical delay. *)
C27_excite_at_agreed_time ==
    \A n \in Nodes :
        \A e \in ScheduledExcites(n) :
            /\ e.time = AgreedEmitTime(n)
            /\ e.time < proto[n].expected_time + cfg.cc_up[n]


(* C28: every BSM_res notification is completed by the late detection of a
   pair measured as (early,late) or (late,early) whose two photons both
   survived, and the trigger before it was the early detection of that same
   pair; no dark count, no pair with a lost photon and no trigger of an
   earlier pair takes part in a herald. *)
C28_res_only_from_one_heralding_pair ==
    \A k \in 1..Len(hist.bsm_res) :
        /\ hist.bsm_res[k].kind \in {"el", "le"}
        /\ hist.bsm_res[k].desired
        /\ hist.bsm_res[k].pair > 0
        /\ hist.bsm_res[k].prev_pair = hist.bsm_res[k].pair
        /\ hist.pairs[hist.bsm_res[k].pair].s0
        /\ hist.pairs[hist.bsm_res[k].pair].s1


\* the measurement of pair i set a Bell state on the two memories' keys
Installed(i) ==
    /\ hist.pairs[i].kind \in {"el", "le"}
    /\ hist.pairs[i].s0
    /\ hist.pairs[i].s1

(* C29: whenever a node declares success with psi_sign s, the BSM installed
   a Bell state on the two memories' keys when it measured the photon pair of
   that attempt, and s is 0 when the two detector choices of that pair were
   equal (psi+) and 1 when they differed (psi-). *)
C29_sign_matches_installed_state ==
    \A n \in Nodes :
        (HasResolved(n) /\ hist.resolved[n].success) =>
            \E i \in 1..Len(hist.pairs) :
                /\ hist.pairs[i].starts[n] = hist.resolved[n].starts
                /\ Installed(i)
                /\ hist.resolved[n].psi_sign = PairSign(i)


(***************************************************************************)
(* The two-node scenario with memories of different frequencies: the        *)
(* memory of one node has half the frequency (twice the period) of the      *)
(* other.                                                                   *)
(***************************************************************************)
Dividers == {d \in [Nodes -> {1, 2}] : \E n \in Nodes : d[n] = 1}

FrequencyScenarios ==
    {[c EXCEPT !.divider = d] :
        c \in {s \in Scenarios : /\ s.loop /\ ~s.dark /\ s.retrap_num = MaxRetrap
                                  /\ s.name = [n \in Nodes |-> <<n>>]},
        d \in Dividers}

InitFrequency ==
    /\ \E c \in FrequencyScenarios : InitWorld(Blank(c))
    /\ probe = NoProbe

NextFrequency ==
    \/ TimelineInit
    \/ SetOthers
    \/ \E n \in Nodes : Start(n)
    \/ RunSendMessage
    \/ RunReceiveMessage
    \/ RunEmitEvent
    \/ RunUpdateMemory
    \/ RunReceiveQubit
    \/ RunGet

SpecFrequency == InitFrequency /\ [][NextFrequency]_vars

(* C30: on each node and in every attempt the emit_event the handshake
   scheduled lies at or after the node's own memory next_excite_time, so the
   excite call of emit_event is not the refractory no-op. *)
C30_emit_time_feasible ==
    \A n \in Nodes :
        \A e \in OwnEmits(n) : e.time >= memory[n].next_excite_time


(***************************************************************************)
(* The two-node scenario in which the classical link between the end nodes  *)
(* is shorter than the difference of their links to the BSM node allows a   *)
(* NEGOTIATE to overtake the peer's resolve: the non-primary (node 1) is    *)
(* 7500 from the BSM node, the primary (node 2) 4500, and the nodes are     *)
(* 1500 or 4500 apart.                                                      *)
(***************************************************************************)
OverlapScenarios ==
    {[c EXCEPT !.cc_up = <<7500, 4500>>, !.cc_down = <<7500, 4500>>, !.cc_node = d] :
        c \in {s \in Scenarios : /\ s.loop /\ ~s.dark /\ s.retrap_num = MaxRetrap
                                  /\ s.name = [n \in Nodes |-> <<n>>]},
        d \in {1500, 4500}}

InitOverlap ==
    /\ \E c \in OverlapScenarios : InitWorld(Blank(c))
    /\ probe = NoProbe

SpecOverlap == InitOverlap /\ [][NextFrequency]_vars

\* the resolve events of node n that are pending
PendingResolves(n) == {e \in events : e.act = "update_memory" /\ e.tgt = n}

(* C31: attempts never overlap at the non-primary: a NEGOTIATE is handled
   only after the previous attempt was resolved, so a node never has the
   resolve events of two attempts pending at once. *)
C31_attempts_never_overlap ==
    \A n \in Nodes : Cardinality(PendingResolves(n)) <= 1


(***************************************************************************)
(* Liveness: the script's set-up calls are made one after the other, and    *)
(* the timeline's run loop takes the next event as long as there is one, so *)
(* these steps are weakly fair.  For the run loop the weak fairness is      *)
(* written out, with EventDue the condition under which RunEvent is         *)
(* enabled.  The model stops at MaxTime; a protocol event left beyond it is *)
(* the cut of the model, not a stall of the program.                        *)
(***************************************************************************)
\* the script's layout and the layouts with unequal classical delays, without
\* dark counts and with lossless detectors
LiveScenarios ==
    {c \in Scenarios \cup OverlapScenarios :
        /\ ~c.dark /\ c.det_eff = EffScale /\ c.name = [n \in Nodes |-> <<n>>]}

InitLive ==
    /\ \E c \in LiveScenarios : InitWorld(Blank(c))
    /\ probe = NoProbe

EventDue ==
    \E e \in events : \E act \in {"send_message", "receive_message", "emit_event",
                                   "update_memory", "receive_qubit", "get"} :
        Runnable(e, act)

RunEvent ==
    \/ RunSendMessage
    \/ RunReceiveMessage
    \/ RunEmitEvent
    \/ RunUpdateMemory
    \/ RunReceiveQubit
    \/ RunGet

FairRun == []<>(~EventDue) \/ []<><<RunEvent>>_vars

FairSpec ==
    /\ InitLive /\ [][NextFrequency]_vars
    /\ WF_vars(TimelineInit) /\ WF_vars(SetOthers) /\ WF_vars(\E n \in Nodes : Start(n))
    /\ FairRun

MaxStarts == 3

ProtocolEvents == {"send_message", "receive_message", "emit_event", "update_memory"}

BeyondHorizon ==
    \E e \in events : e.time > MaxTime /\ e.act \in ProtocolEvents

AttemptStarted(n, k) == hist.phase = "running" /\ hist.starts[n] = k

AttemptResolved(n, k) == hist.resolved[n].starts >= k

Renegotiated(n, k) ==
    \/ hist.starts[n] > k
    \/ hist.negotiated[1] /\ hist.negotiated[2]
    \/ \A m \in Nodes : hist.resolved[m].starts >= k

(* C32: the handshake never deadlocks.  Under fair event processing every
   attempt a node has started is eventually resolved on that node, and in
   loop mode every attempt that follows a failure is eventually negotiated
   on both nodes (the primary's NEGOTIATE was answered by NEGOTIATE_ACK and
   the answer was handled), unless the run is cut at MaxTime. *)
C32_no_deadlock ==
    \A n \in Nodes : \A k \in 1..MaxStarts :
        /\ AttemptStarted(n, k) ~> (AttemptResolved(n, k) \/ BeyondHorizon)
        /\ (AttemptStarted(n, k) /\ k > 1 /\ cfg.loop)
               ~> (Renegotiated(n, k) \/ BeyondHorizon)



(***************************************************************************)
(* TimeBinBSM.trigger called directly, by either detector, at instants on   *)
(* both sides of one bin_separation after the first trigger; the BSM's      *)
(* resolution is that of its detectors, and the BSM is as a measurement of  *)
(* a pair has left it (two photons in the buffer, desired_state set or not).*)
(***************************************************************************)
TriggerTimes ==
    {0} \cup {Base.cfg.bin_separation + dt : dt \in {-76, -75, -6, -5, 0, 5, 6, 75, 76}}

InitTrigger ==
    /\ \E time_resolution \in {4, 150}, desired_state \in BOOLEAN :
          InitWorld([Base EXCEPT !.bsm.resolution = time_resolution,
                                 !.bsm.desired_state = desired_state,
                                 !.bsm.photons = <<[location |-> 1, loss |-> 0],
                                                   [location |-> 2, loss |-> 0]>>,
                                 !.bsm.photon_arrival_time = 0,
                                 !.det = [d \in Detectors |->
                                     [@[d] EXCEPT !.time_resolution = time_resolution]]])
    /\ probe = [calls |-> <<>>]

TriggerCall ==
    /\ Len(probe.calls) < MaxCalls
    /\ \E d \in Detectors, t \in TriggerTimes :
          /\ t >= now
          /\ LET w == BSM_trigger([World EXCEPT !.now = t], d, t, 0)
             IN  /\ Commit(w)
                 /\ probe' = [calls |-> Append(probe.calls,
                        [time |-> t, detector |-> d, prev |-> bsm.last_res[1],
                         notified |-> Len(w.hist.bsm_res) > Len(hist.bsm_res)])]

NextTrigger == TriggerCall

SpecTrigger == InitTrigger /\ [][NextTrigger]_vars

(* C33: TimeBinBSM.trigger notifies a result for a trigger at time t exactly
   when |(t - previous trigger time) - bin_separation| <= resolution / 2,
   with resolution the device's resolution. *)
C33_valid_pair_within_half_resolution ==
    \A i \in 1..Len(probe.calls) :
        LET c == probe.calls[i]
        IN  c.notified <=>
                2 * Abs((c.time - c.prev) - cfg.bin_separation) <= bsm.resolution


\* the MEAS_RES deliveries to end node n that the run loop takes next
DueMeasRes(n) ==
    {e \in events : /\ Runnable(e, "receive_message")
                    /\ e.tgt = n
                    /\ e.msg.msg_type = "MEAS_RES"}

(* C34: an end node accepts a MEAS_RES (takes its detector sign as psi_sign)
   exactly when the message's time lies within expected_time +/- half the
   resolution carried in the message; a message outside that window leaves
   psi_sign as it was. *)
C34_herald_validated_with_msg_resolution ==
    [][\A n \in Nodes : \A e \in DueMeasRes(n) :
          proto'[n].psi_sign =
              IF valid_trigger_time(e.msg.time, proto[n].expected_time, e.msg.resolution)
              THEN e.msg.detector
              ELSE proto[n].psi_sign]_vars


\* dark counts that make a trigger pair 3000 before the expected herald time
HeraldScenarios ==
    {[c EXCEPT !.dark_gaps = DarkGaps \cup {57000}] :
        c \in {d \in Scenarios : d.dark}}

InitHerald ==
    /\ \E c \in HeraldScenarios : InitWorld(Blank(c))
    /\ probe = NoProbe

SpecHerald == InitHerald /\ [][Next]_vars


\* the pair a step has measured, if it measured one
MeasuredPair(h) == h.pairs[Len(h.pairs)]

BasisState(kind, i) ==
    IF (kind \in {"ee", "el"} /\ i = 1) \/ (kind \in {"ee", "le"} /\ i = 2)
    THEN "early" ELSE "late"

(* C35: when TimeBinBSM.get measures a heralding pair ((early,late) or
   (late,early)), the two memory keys hold a joint Bell state exactly when
   both photons survived their loss draws, psi+ when the two detector
   choices are equal and psi- otherwise; when a photon was lost each key
   holds what the basis measurement left. *)
C35_bell_state_iff_both_survive ==
    [][Len(hist'.pairs) > Len(hist.pairs) =>
          LET p == MeasuredPair(hist')
              key(i) == bsm'.photons[i].location
          IN  p.kind \in {"el", "le"} =>
                  \A i \in 1..2 :
                      memory'[key(i)].qstate =
                          IF p.s0 /\ p.s1
                          THEN (IF p.d1 = p.d2 THEN "psi+" ELSE "psi-")
                          ELSE BasisState(p.kind, i)]_vars

C35_witness ==
    /\ hist.pairs # <<>>
    /\ MeasuredPair(hist).kind \in {"el", "le"}
    /\ MeasuredPair(hist).s0 /\ MeasuredPair(hist).s1
    /\ MeasuredPair(hist).d1 # MeasuredPair(hist).d2
    /\ \A n \in Nodes : memory[n].qstate = "psi-"


\* the photon deliveries to the BSM that the run loop takes next
DuePhotons == {e \in events : Runnable(e, "receive_qubit")}

Locations(photons) == {photons[i].location : i \in 1..Len(photons)}

(* C36: the BSM photon buffer never mixes photons of different arrival
   instants.  A photon that arrives strictly after photon_arrival_time
   becomes the whole buffer; a photon from a location already in the buffer
   is not added; and a pair is measured only in the step that adds the second
   photon, from another location, at the instant the first one arrived (so
   at most once per pair). *)
C36_buffer_holds_one_instant ==
    [][\A e \in DuePhotons :
          LET photon == [location |-> e.src, loss |-> e.msg.loss]
              measured == Len(hist'.pairs) > Len(hist.pairs)
          IN  /\ bsm'.photon_arrival_time = e.time
              /\ IF bsm.photon_arrival_time < e.time
                 THEN bsm'.photons = <<photon>> /\ ~measured
                 ELSE IF e.src \in Locations(bsm.photons)
                 THEN bsm'.photons = bsm.photons /\ ~measured
                 ELSE bsm'.photons = Append(bsm.photons, photon)
              /\ measured =>
                    /\ Len(bsm.photons) = 1
                    /\ bsm.photon_arrival_time = e.time
                    /\ Locations(bsm'.photons) = Nodes
              /\ Len(bsm'.photons) <= 2]_vars

C36_witness ==
    /\ Len(hist.pairs) >= 2
    /\ Len(bsm.photons) = 2
    /\ Locations(bsm.photons) = Nodes
    /\ bsm.photon_arrival_time = MeasuredPair(hist).time
    /\ bsm.photon_arrival_time > hist.pairs[1].time


(***************************************************************************)
(* The trial loop of the main script: when tl.run() has returned (no event  *)
(* is left) and an ENTANGLED update has set ent, the next pass creates new  *)
(* protocol instances, resets the raw counters and the memories, and goes   *)
(* through tl.init(), pair_protocol and start again.  The clock, the        *)
(* counters of the devices and the nodes' attempt counters are kept.        *)
(***************************************************************************)
TrialScenarios == {c \in Scenarios : c.dark}

InitTrials ==
    /\ \E c \in TrialScenarios : InitWorld(Blank(c))
    /\ probe = NoProbe

NewTrial ==
    /\ hist.phase = "running"
    /\ error = "none"
    /\ events = {}
    /\ now <= MaxTime
    /\ \E n \in Nodes : hist.resolved[n].success
    /\ LET w1 == [World EXCEPT !.rm = [n \in Nodes |-> [@[n] EXCEPT !.raw_counter = 0]],
                               !.proto = Blank(cfg).proto]
           w2 == Memory_reset(Memory_reset(w1, 1), 2)
       IN  Commit([w2 EXCEPT !.hist = Blank(cfg).hist])
    /\ UNCHANGED probe

NextTrials ==
    \/ TimelineInit
    \/ SetOthers
    \/ \E n \in Nodes : Start(n)
    \/ RunSendMessage
    \/ RunReceiveMessage
    \/ RunEmitEvent
    \/ RunUpdateMemory
    \/ RunReceiveQubit
    \/ RunGet
    \/ RunAddDarkCount
    \/ RunRecordDetection
    \/ NewTrial

SpecTrials == InitTrials /\ [][NextTrials]_vars

PendingDark(evs, d, act) == {e \in evs : e.act = act /\ e.tgt = d}

\* a success of the trial has removed the dark-count events
DarkCancelled == \E n \in Nodes : hist.resolved[n].success

(* C37: for a detector with dark counts, every firing of add_dark_count
   schedules exactly one add_dark_count and exactly one record_detection, at
   one and the same later time; so from the detector's initialisation on,
   in the first trial and in a later one, the detector has exactly one
   pending add_dark_count while the process has not been cancelled, and none
   after the cancellation. *)
C37_one_dark_count_chain ==
    /\ [](hist.phase # "constructed" =>
             \A d \in Detectors :
                 Cardinality(PendingDark(events, d, "add_dark_count"))
                     = IF DarkCancelled THEN 0 ELSE 1)
    /\ [][\A e \in {f \in events : Runnable(f, "add_dark_count")} :
             LET new == events' \ events
             IN  /\ Cardinality(new) = 2
                 /\ Cardinality(PendingDark(new, e.tgt, "add_dark_count")) = 1
                 /\ Cardinality(PendingDark(new, e.tgt, "record_detection")) = 1
                 /\ \A f, g \in new : f.time = g.time /\ f.time > e.time]_vars

\* a second trial has initialised the detectors again and a dark count of
\* that trial has fired
C37_witness ==
    /\ hist.pairs = <<>> /\ \E k \in Kinds : bsm.counts[k] > 0
    /\ hist.darks >= 2
    /\ ~DarkCancelled
    /\ \A d \in Detectors : Cardinality(PendingDark(events, d, "add_dark_count")) = 1


(* C38: a record_detection accepted at time now reports a timestamp that is
   a multiple of the detector's time_resolution and at most time_resolution/2
   away from now, and sets next_detection_time to now + 1/count_rate (the
   dead time); a rejected one (now <= next_detection_time) reports nothing
   and leaves next_detection_time unchanged. *)
C38_quantized_timestamp ==
    [][Len(probe'.calls) > Len(probe.calls) =>
          IF now > det[0].next_detection_time
          THEN /\ bsm'.trigger_count = bsm.trigger_count + 1
               /\ bsm'.last_res[1] % det[0].time_resolution = 0
               /\ 2 * Abs(bsm'.last_res[1] - now) <= det[0].time_resolution
               /\ det'[0].next_detection_time = now + det[0].dead_time
          ELSE /\ bsm' = bsm
               /\ events' = events
               /\ det'[0].next_detection_time = det[0].next_detection_time]_vars

\* an accepted call at an odd instant with resolution 2, and a rejected call
C38_witness ==
    /\ det[0].time_resolution = 2
    /\ \E i, j \in 1..Len(probe.calls) :
          /\ probe.calls[i].recorded = 1 /\ probe.calls[i].time % 2 = 1
          /\ probe.calls[j].recorded = 0


\* the device's diagnostic counters are set aside
SansCounters(b) ==
    [b EXCEPT !.trigger_count = 0, !.appropriate_time_photon_count = 0,
              !.approved_state_invalid_time_photon_count = 0,
              !.invalid_state_photon_count = 0]

(* C39: a trigger whose interval to the preceding trigger is not a valid bin
   separation, as TimeBinBSM.trigger tests it, sends no notification and
   raises no error.  It changes only the diagnostic counters and last_res,
   which becomes the trigger's time and detector index; the photon buffer,
   desired_state and everything outside the device stay as they were. *)
C39_invalid_trigger_frame ==
    [][Len(probe'.calls) > Len(probe.calls) =>
          LET c == probe'.calls[Len(probe'.calls)]
          IN  ~ValidSeparation(c.time - c.prev, cfg.bin_separation) =>
                  /\ ~c.notified
                  /\ events' = events /\ error' = "none"
                  /\ hist'.bsm_res = hist.bsm_res
                  /\ hist'.meas_res_sent = hist.meas_res_sent
                  /\ SansCounters(bsm') =
                         SansCounters([bsm EXCEPT !.last_res = <<c.time, c.detector>>])
                  /\ bsm'.trigger_count = bsm.trigger_count + 1
                  /\ bsm'.appropriate_time_photon_count = bsm.appropriate_time_photon_count
                  /\ <<det', proto', memory', node', rm'>> = <<det, proto, memory, node, rm>>]_vars

\* an invalid trigger after a first one, with desired_state set
C39_witness ==
    /\ bsm.desired_state = TRUE
    /\ bsm.approved_state_invalid_time_photon_count >= 2
    /\ Len(bsm.photons) = 2
    /\ Len(probe.calls) >= 2
    /\ ~probe.calls[Len(probe.calls)].notified
    /\ bsm.last_res[1] = probe.calls[Len(probe.calls)].time


(***************************************************************************)
(* start() and update_memory() called directly on the protocol instance of  *)
(* a node, which is in the node's protocol list or has been replaced        *)
(* (installed = FALSE), in any round, with or without a sign.               *)
(***************************************************************************)
InitStale ==
    /\ \E installed \in [Nodes -> BOOLEAN], ent_round \in [Nodes -> 0..1],
          psi_sign \in [Nodes -> {NoSign, 0}], attempts \in [Nodes -> 0..1] :
          LET w == set_others(set_others(Base, 1), 2)
          IN  InitWorld([w EXCEPT
                  !.proto = [n \in Nodes |->
                                [@[n] EXCEPT !.installed = installed[n],
                                             !.ent_round = ent_round[n],
                                             !.psi_sign = psi_sign[n]]],
                  !.node = [n \in Nodes |-> [@[n] EXCEPT !.attempts = attempts[n]]]])
    /\ probe = [calls |-> <<>>]

StaleCall ==
    /\ Len(probe.calls) < MaxCalls
    /\ error = "none"
    /\ \E n \in Nodes, op \in {"start", "update_memory"} :
          /\ Commit(IF op = "start" THEN start(World, n) ELSE update_memory(World, n).w)
          /\ probe' = [calls |-> Append(probe.calls,
                          [op |-> op, n |-> n, installed |-> proto[n].installed])]

NextStale == StaleCall

SpecStale == InitStale /\ [][NextStale]_vars

(* C40: start() and update_memory() on a protocol instance that is no longer
   in its node's protocol list are no-ops: no message is sent, no event is
   scheduled, and the protocol (round and psi_sign included), the memory and
   the node's attempt counter stay as they were. *)
C40_stale_calls_are_noops ==
    [][Len(probe'.calls) > Len(probe.calls) =>
          LET c == probe'.calls[Len(probe'.calls)]
          IN  ~c.installed =>
                  /\ events' = events
                  /\ schedule_counter' = schedule_counter
                  /\ proto' = proto
                  /\ memory' = memory
                  /\ node'[c.n].attempts = node[c.n].attempts]_vars

====
